---- MODULE Spec2Model ----
(***************************************************************************)
(* Path generation and deduplication of xstate-paths.                      *)
(*                                                                         *)
(* A machine is the external collaborator of the library: an initial      *)
(* state, the enabled event types of every state (in the order the        *)
(* machine reports them), a transition function and a done flag.  Path    *)
(* generation (Path.generatePaths / Path.generateNextPaths) is the lazy,  *)
(* recursive generator of the source; its recursion is the variable       *)
(* stack, one frame per suspended generateNextPaths call.                 *)
(***************************************************************************)
EXTENDS Integers, Sequences, FiniteSets, TLC

VARIABLES
    machine,        \* the machine handed to Path.makePaths
    options,        \* MakePathOptions: eventSource, maxLength, filterSegment, filterPath
    pc,             \* "idle" | "running" | "done": position of makePaths
    stack,          \* suspended generateNextPaths calls, innermost last
    paths,          \* the array arrayFromAsyncGenerator has collected so far
    explored,       \* every Path object constructed so far, in construction order
    rejected,       \* every (path, candidate) pair filterSegment has rejected
    result,         \* what makePaths returned
    run,            \* 1 or 2: makePaths is called twice on the same arguments
    firstResult,    \* the paths collected by the first call
    generators,     \* the generators the registered sources have made, per generateNextPaths loop
    dedupArg,       \* the paths handed to Path.deduplicate, as they were handed over
    dedupIn,        \* the array handed to Path.deduplicate (it is sorted in place)
    dedupOut,       \* what Path.deduplicate returned for it
    dedupTwice,     \* Path.deduplicate applied to dedupOut
    rt,             \* the arguments of the call that is being executed, or the object it works on
    tasks,          \* the async calls in progress, each at its current await
    log,            \* every call made to user code and how it ended, in order
    outcome         \* the promise the caller of that call holds

vars == <<machine, options, pc, stack, paths, explored, rejected, result,
          run, firstResult, generators, dedupArg, dedupIn, dedupOut, dedupTwice,
          rt, tasks, log, outcome>>

genVars == <<machine, options, pc, stack, paths, explored, rejected, result,
             run, firstResult, generators>>

dedupVars == <<dedupArg, dedupIn, dedupOut, dedupTwice>>

execVars == <<rt, tasks, log, outcome>>

\* the promise the caller holds: not yet made, pending, resolved, or rejected
\* with an error
NoOutcome == [status |-> "none", error |-> <<>>]
Pending == [status |-> "pending", error |-> <<>>]
Resolved == [status |-> "resolved", error |-> <<>>]
Rejected(error) == [status |-> "rejected", error |-> error]

(***************************************************************************)
(* Bounds of the model.                                                    *)
(***************************************************************************)
MaxMaxLength == 4       \* largest maxLength option explored
MaxPaths == 3           \* longest array handed to Path.deduplicate
MaxSegs == 2            \* most segments after the initial one in a path handed to Path.deduplicate
MaxRunSegs == 2         \* most segments after the initial one in a path handed to Path.run
MaxRunPaths == 2        \* longest array handed to Path.runPaths
MaxEvents == 2          \* most events registered for a type in an EventSource
MaxExecutors == 3       \* most executors handed to withExecutors
MaxNextEvents == 2      \* most event types a state handed to generateNextEvents reports
MaxGenerators == 2      \* most generateEvents generators alive at once
MaxReads == 3           \* most reads of a cached property
MaxItems == 2           \* most objects in a list handed to crossMerge

DefaultMaxLength == 10  \* maxLength = 10 in generateNextPaths

(***************************************************************************)
(* Small helpers on sequences.                                             *)
(***************************************************************************)
RECURSIVE Flatten(_)
Flatten(ss) == IF ss = <<>> THEN <<>> ELSE Head(ss) \o Flatten(Tail(ss))

Reverse(s) == [i \in 1..Len(s) |-> s[Len(s) + 1 - i]]

Range(s) == {s[i] : i \in 1..Len(s)}

IsPrefix(s, t) == Len(s) <= Len(t) /\ SubSeq(t, 1, Len(s)) = s

\* String.prototype.includes on strings modelled as sequences of characters
StrIncludes(hay, needle) ==
    \E k \in 0..(Len(hay) - Len(needle)) :
        SubSeq(hay, k + 1, k + Len(needle)) = needle

\* Array.prototype.join
RECURSIVE Join(_, _)
Join(strs, sep) ==
    IF strs = <<>> THEN <<>>
    ELSE IF Len(strs) = 1 THEN strs[1]
    ELSE strs[1] \o sep \o Join(Tail(strs), sep)

(***************************************************************************)
(* The machine collaborator.                                               *)
(***************************************************************************)
States == {"a", "b", "ab"}
Types == {"A", "B"}
InitType == "xstate.init"
Payloads == {"none", "p1", "p2"}

\* the characters of the names, as the descriptions print them: a payload
\* is printed by JSON.stringify, field after field in the order the fields
\* were written into the event object, so p12 = { 1, 2 } and p21 = { 2, 1 }
\* hold the same fields and print differently
Chars(name) ==
    CASE name = "a" -> <<"a">>
      [] name = "b" -> <<"b">>
      [] name = "ab" -> <<"a", "b">>
      [] name = "A" -> <<"A">>
      [] name = "B" -> <<"B">>
      [] name = "BA" -> <<"B", "A">>
      [] name = InitType -> <<"x", "s", "t", "a", "t", "e", ".", "i", "n", "i", "t">>
      [] name = "p1" -> <<"{", "1", "}">>
      [] name = "p2" -> <<"{", "2", "}">>
      [] name = "p12" -> <<"{", "1", ",", "2", "}">>
      [] name = "p21" -> <<"{", "2", ",", "1", "}">>
      [] OTHER -> <<>>

Arrow == <<" ", "-", ">", " ">>

Event(type, payload) == [type |-> type, payload |-> payload]

\* machine.transition(state, event): an event the state does not handle, or
\* whose guard rejects its payload, leaves the state value where it is
Transition(m, s, e) ==
    IF e.type \notin Range(m.next[s]) THEN s
    ELSE IF m.guarded /\ e.payload = "p2" THEN s
    ELSE m.target[s][e.type]

(***************************************************************************)
(* EventSource.                                                            *)
(***************************************************************************)
Unregistered == [registered |-> FALSE, events |-> <<>>]
Registered(evs) == [registered |-> TRUE, events |-> evs]

\* EventSource.generateEvents(type), as the array of the events it yields
GenerateEvents(src, type) ==
    IF src[type].registered
    THEN src[type].events
    ELSE <<Event(type, "none")>>

\* the types of nextEvents taken last to first
GenerateNextEventsBackwards(src, m, s) ==
    Flatten([i \in 1..Len(m.next[s]) |-> GenerateEvents(src, m.next[s][Len(m.next[s]) + 1 - i])])

\* EventSource.generateNextEvents(fromState)
GenerateNextEvents(src, m, s) ==
    Flatten([i \in 1..Len(m.next[s]) |-> GenerateEvents(src, m.next[s][i])])

\* generators before any call: loops holds, for every suspended
\* generateNextPaths call (outermost first), the generator generateEvents
\* iterates for each type; ended holds the same for the loops that are over
NoGenerators == [loops |-> <<>>, ended |-> <<>>]

\* a type whose generateEvents the loop has not reached
NotMade == [made |-> FALSE, out |-> <<>>, left |-> <<>>]

\* getGenerator run on the source itself and not on a callback: the map
\* keeps one generator for a type, and a generator handed out for the type
\* has left what the furthest generator of the type has left
SourceGeneratorStored(gens, src, type) ==
    LET lefts == {src[type].events}
                    \cup {gens.loops[k][type].left :
                            k \in {h \in DOMAIN gens.loops : gens.loops[h][type].made}}
                    \cup {gens.ended[k][type].left :
                            k \in {h \in DOMAIN gens.ended : gens.ended[h][type].made}}
    IN  [made |-> TRUE, out |-> <<>>,
         left |-> CHOOSE l \in lefts : \A m \in lefts : Len(l) <= Len(m)]

\* this.sources.get(type)() in generateEvents: the callback getGenerator
\* stored makes a new generator over the registered events, whatever
\* generators were made before; out is what a generator has handed over,
\* left what it has yet to hand over
SourceGenerator(gens, src, type) ==
    [made |-> TRUE, out |-> <<>>, left |-> src[type].events]

\* the event source as the k-th loop meets it: generateEvents of a
\* registered type gives what the generator made for the loop has handed
\* over and what it has left, or, before the loop has reached the type,
\* what the generator the source makes now has left
SourcesFor(gens, src, k) ==
    [t \in Types |->
        IF ~src[t].registered THEN src[t]
        ELSE IF gens.loops[k][t].made
        THEN Registered(gens.loops[k][t].out \o gens.loops[k][t].left)
        ELSE Registered(SourceGenerator(gens, src, t).left)]

\* the generators after the k-th loop has asked generateNextEvents for its
\* n-th event: the types of nextEvents are taken in order, the generator of
\* a type is made when the loop reaches the type, and it is advanced by
\* every event it hands over
RECURSIVE Pulled(_, _, _, _, _)
Pulled(gens, src, k, types, n) ==
    IF types = <<>> \/ n < 1 THEN gens
    ELSE LET type == Head(types)
             evs == GenerateEvents(SourcesFor(gens, src, k), type)
             taken == IF n < Len(evs) THEN n ELSE Len(evs)
             after == IF ~src[type].registered THEN gens
                      ELSE [gens EXCEPT !.loops[k][type] =
                                [made |-> TRUE, out |-> SubSeq(evs, 1, taken),
                                 left |-> SubSeq(evs, taken + 1, Len(evs))]]
         IN  Pulled(after, src, k, Tail(types), n - Len(evs))

\* a generateNextPaths call begins: its loop has reached no type yet
NewLoop(gens) == [gens EXCEPT !.loops = Append(@, [t \in Types |-> NotMade])]

\* the innermost loop is over: its generators are left as they stand
EndLoop(gens) ==
    [loops |-> SubSeq(gens.loops, 1, Len(gens.loops) - 1),
     ended |-> Append(gens.ended, gens.loops[Len(gens.loops)])]

\* an error leaves every suspended loop: it leaves the innermost call first,
\* yield* throws it again in the call below, whose loop then closes its
\* generator, and so on outwards
EndLoops(gens) == [loops |-> <<>>, ended |-> gens.ended \o Reverse(gens.loops)]

(***************************************************************************)
(* Segment: the state reached and (inside it) the event that produced it.  *)
(***************************************************************************)
Segment(e, s) == [type |-> e.type, payload |-> e.payload, state |-> s]

\* new Segment(machine): the segment of machine.initialState
InitialSegment(m) == Segment(Event(InitType, "none"), m.initial)

SegEvent(seg) == Event(seg.type, seg.payload)

\* next segments computed from the machine's initial state instead of the
\* segment's own state
GenerateNextSegmentsFromInitial(m, src, seg) ==
    IF ~m.done[seg.state]
    THEN LET evs == GenerateNextEvents(src, m, seg.state)
         IN  [i \in 1..Len(evs) |-> Segment(evs[i], Transition(m, m.initial, evs[i]))]
    ELSE <<>>

\* Segment.generateNextSegments(eventSource), as the array of what it yields
GenerateNextSegments(m, src, seg) ==
    IF ~m.done[seg.state]
    THEN LET evs == GenerateNextEvents(src, m, seg.state)
         IN  [i \in 1..Len(evs) |-> Segment(evs[i], Transition(m, seg.state, evs[i]))]
    ELSE <<>>

\* Segment.eventDescription
EventDescription(seg) ==
    IF seg.payload # "none"
    THEN Chars(seg.type) \o <<" ">> \o Chars(seg.payload)
    ELSE Chars(seg.type)

\* Segment.stateDescription (atomic states: toStrings() is the one leaf)
StateDescription(seg) == Chars(seg.state)

\* Segment.description
SegDescription(seg) == EventDescription(seg) \o Arrow \o StateDescription(seg)

\* Segment.matches
SegMatches(s1, s2) == SegDescription(s1) = SegDescription(s2)

\* Segment.hasSimilarEvent
HasSimilarEvent(s1, s2) == s1.type = s2.type

\* JSON.stringify of a state value (a string): the name in double quotes
JsonStringify(s) == <<"\"">> \o Chars(s) \o <<"\"">>

\* Segment.hasSameTarget
HasSameTarget(s1, s2) == JsonStringify(s1.state) = JsonStringify(s2.state)

\* similar by the target alone
IsSimilarSameTarget(s1, s2) == HasSameTarget(s1, s2)

\* Segment.isSimilar
IsSimilar(s1, s2) == HasSimilarEvent(s1, s2) /\ HasSameTarget(s1, s2)

\* Segment.reachesState
ReachesState(seg, s) == JsonStringify(seg.state) = JsonStringify(s)

\* Segment.isFinal
SegIsFinal(m, seg) == m.done[seg.state] \/ Len(m.next[seg.state]) = 0

(***************************************************************************)
(* Path: a sequence of segments.                                           *)
(***************************************************************************)
\* new Path(machine, segments)
NewPath(m, segments) ==
    IF Len(segments) = 0 THEN <<InitialSegment(m)>> ELSE segments

LastSegment(path) == path[Len(path)]

\* Path.description
Description(path) ==
    Join([i \in 1..Len(path) |-> SegDescription(path[i])], Arrow)

\* containment that a path with the same description does not count for
IncludesProper(path, other) ==
    /\ StrIncludes(Description(path), Description(other))
    /\ Description(path) # Description(other)

\* Path.includes
Includes(path, other) == StrIncludes(Description(path), Description(other))

\* Path.isFinal
IsFinal(m, path) == IF Len(path) = 0 THEN FALSE ELSE SegIsFinal(m, LastSegment(path))

\* the count of the segments whose description equals that of the segment
CountSimilarSegmentsMatching(path, seg) ==
    Cardinality({i \in 1..Len(path) : SegMatches(path[i], seg)})

\* Path.countSimilarSegments
CountSimilarSegments(path, seg) ==
    Cardinality({i \in 1..Len(path) : IsSimilar(path[i], seg)})

\* Path.alreadyHasSegment
AlreadyHasSegment(path, seg) == \E i \in 1..Len(path) : SegMatches(path[i], seg)

\* Path.alreadyReachesState
AlreadyReachesState(path, s) == \E i \in 1..Len(path) : ReachesState(path[i], s)

\* the filter with the revisit cap off by one
DefaultSegmentFilterLoose(seg, path) == CountSimilarSegments(path, seg) <= 2

\* Path.defaultSegmentFilter
DefaultSegmentFilter(seg, path) == CountSimilarSegments(path, seg) < 2

\* a path filter that lets every path through
DefaultPathFilterLax(m, path) == Len(path) > 0

\* Path.defaultPathFilter
DefaultPathFilter(m, path) == IsFinal(m, path)

\* options.filterSegment: the default, or one of the caller's predicates
FilterSegmentNames == {"default", "acceptAll", "noRevisit"}
FilterSegment(name, seg, path) ==
    CASE name = "default" -> DefaultSegmentFilter(seg, path)
      [] name = "acceptAll" -> TRUE
      [] name = "noRevisit" -> ~AlreadyReachesState(path, seg.state)

\* options.filterPath: the default, or the caller's accept-everything
FilterPathNames == {"default", "acceptAll"}

\* a filterPath option that is left out accepts every path
FilterPathDefaultAccepts(name, m, path) ==
    CASE name = "default" -> TRUE
      [] name = "acceptAll" -> TRUE

FilterPath(name, m, path) ==
    CASE name = "default" -> DefaultPathFilter(m, path)
      [] name = "acceptAll" -> TRUE

(***************************************************************************)
(* Path.deduplicate.                                                       *)
(***************************************************************************)
\* Array.prototype.sort((a, b) => b.length - a.length): stable, longest first
RECURSIVE SortLongestFirst(_)
SortLongestFirst(ps) ==
    IF ps = <<>> THEN <<>>
    ELSE LET rest == SortLongestFirst(SubSeq(ps, 1, Len(ps) - 1))
             p == ps[Len(ps)]
             k == Cardinality({i \in 1..Len(rest) : Len(rest[i]) >= Len(p)})
         IN  SubSeq(rest, 1, k) \o <<p>> \o SubSeq(rest, k + 1, Len(rest))

\* the loop with every() in the place of some()
RECURSIVE KeepUntravelledEvery(_, _)
KeepUntravelledEvery(sorted, kept) ==
    IF sorted = <<>> THEN kept
    ELSE LET p == Head(sorted)
         IN  IF \A i \in 1..Len(kept) : Includes(kept[i], p)
             THEN KeepUntravelledEvery(Tail(sorted), kept)
             ELSE KeepUntravelledEvery(Tail(sorted), Append(kept, p))

\* the loop over sortedPaths: keep a path no kept path's description includes
RECURSIVE KeepUntravelled(_, _)
KeepUntravelled(sorted, kept) ==
    IF sorted = <<>> THEN kept
    ELSE LET p == Head(sorted)
         IN  IF \E i \in 1..Len(kept) : Includes(kept[i], p)
             THEN KeepUntravelled(Tail(sorted), kept)
             ELSE KeepUntravelled(Tail(sorted), Append(kept, p))

\* deduplicate without the final reverse()
DeduplicateUnreversed(ps) == KeepUntravelled(SortLongestFirst(ps), <<>>)

Deduplicate(ps) == Reverse(KeepUntravelled(SortLongestFirst(ps), <<>>))

(***************************************************************************)
(* The inputs of Path.makePaths.                                           *)
(***************************************************************************)
\* The machines: initial state "a"; event A moves between "a" and "b" (or on
\* to "ab"), event B leaves for "ab"; state.nextEvents lists the enabled
\* types in the order the machine reports them.  In a guarded machine an A
\* event carrying payload p2 fails the guard.  "ab" is a dead end (no
\* events, not done), a final state (done), or a final state on which a
\* machine-level handler for A is still enabled.
DefsOfA ==
    {[next |-> <<>>, tA |-> "a"]} \cup
    {[next |-> n, tA |-> t] : n \in {<<"A">>, <<"A", "B">>, <<"B", "A">>}, t \in {"a", "b"}}

DefsOfB ==
    {[next |-> <<>>, tA |-> "b"]} \cup
    {[next |-> n, tA |-> t] : n \in {<<"A">>, <<"A", "B">>}, t \in States}

EndKinds == {"dead", "final", "finalOn"}

MakeMachine(da, db, kind, guarded) ==
    [initial |-> "a",
     next |-> [s \in States |->
                 CASE s = "a" -> da.next
                   [] s = "b" -> db.next
                   [] s = "ab" -> IF kind = "finalOn" THEN <<"A">> ELSE <<>>],
     target |-> [s \in States |-> [t \in Types |->
                 IF t = "B" THEN "ab"
                 ELSE CASE s = "a" -> da.tA
                        [] s = "b" -> db.tA
                        [] s = "ab" -> "ab"]],
     guarded |-> guarded,
     done |-> [s \in States |-> s = "ab" /\ kind # "dead"]]

\* state "b" is given a definition only in the machines that can reach it
ReachesB(da) == da.tA = "b"

Machines ==
    UNION { { MakeMachine(da, db, kind, guarded) :
                db \in {d \in DefsOfB : ReachesB(da) \/ d.next = <<>>},
                kind \in EndKinds,
                guarded \in BOOLEAN } :
            da \in DefsOfA }

\* EventSource maps: nothing registered, or payload variants for type A
EventSources ==
    { [t \in Types |-> IF t = "A" THEN a ELSE Unregistered] :
        a \in { Unregistered,
                Registered(<<>>),
                Registered(<<Event("A", "p1"), Event("A", "p2")>>) } }

\* options.maxLength: <<>> when the caller leaves it out
MaxLengths == {<<>>} \cup {<<n>> : n \in 1..MaxMaxLength}

MaxLength(opts) ==
    IF opts.maxLength = <<>> THEN DefaultMaxLength ELSE opts.maxLength[1]

\* The option sets explored.  A guard on the payload only shows with an event
\* source that produces payloads, and maxLength is left out only together
\* with a segment filter that bounds the revisits.
OptionSets(m) ==
    { o \in [eventSource : EventSources,
             maxLength : MaxLengths,
             filterSegment : FilterSegmentNames,
             filterPath : FilterPathNames] :
        /\ m.guarded => Len(o.eventSource["A"].events) > 0
        /\ o.maxLength = <<>> => o.filterSegment # "acceptAll" }

(***************************************************************************)
(* Path generation.                                                        *)
(***************************************************************************)
TypeOK ==
    /\ pc \in {"idle", "running", "done", "dedup", "deduped", "dedupedTwice", "exec", "run", "failed",
              "events", "generated", "nextEvents", "nextGenerated",
              "generators", "segment", "nextSegments", "isFinal", "compare", "compared",
              "includes", "included", "construct", "constructFailed", "merge", "merged",
              "cache"}
    /\ run \in {1, 2}

Init ==
    /\ machine \in Machines
    /\ options \in OptionSets(machine)
    /\ pc = "idle"
    /\ stack = <<>>
    /\ paths = <<>>
    /\ explored = <<>>
    /\ rejected = {}
    /\ result = <<>>
    /\ run = 1
    /\ firstResult = <<>>
    /\ generators = NoGenerators
    /\ dedupArg = <<>>
    /\ dedupIn = <<>>
    /\ dedupOut = <<>>
    /\ dedupTwice = <<>>
    /\ rt = <<>>
    /\ tasks = <<>>
    /\ log = <<>>
    /\ outcome = NoOutcome

Top == stack[Len(stack)]

\* the address of a frame's path: the candidate index taken at every level
Addr(k) == [i \in 1..(k - 1) |-> stack[i].idx]

\* the candidates taken in the reverse of the order the event source produced
CandidatesReversed ==
    Reverse(GenerateNextSegments(machine, SourcesFor(generators, options.eventSource, Len(stack)),
                                 LastSegment(Top.path)))

\* the candidates of the innermost suspended generateNextPaths call
Candidates ==
    GenerateNextSegments(machine, SourcesFor(generators, options.eventSource, Len(stack)),
                         LastSegment(Top.path))

\* the generators after the innermost loop has asked for its next candidate:
\* generateNextSegments asks the event source only when the state is not done
Pull ==
    IF machine.done[LastSegment(Top.path).state] THEN generators
    ELSE Pulled(generators, options.eventSource, Len(stack),
                machine.next[LastSegment(Top.path).state], Top.idx)

\* every new path is yielded, whatever filterPath says
ExploreUnfiltered(path, addr) ==
    /\ explored' = Append(explored, [path |-> path, addr |-> addr, yielded |-> TRUE])
    /\ paths' = Append(paths, path)

\* new Path(...) followed by if (filterPath(path)) yield path
Explore(path, addr) ==
    LET ok == FilterPath(options.filterPath, machine, path)
    IN  /\ explored' = Append(explored, [path |-> path, addr |-> addr, yielded |-> ok])
        /\ paths' = IF ok THEN Append(paths, path) ELSE paths

\* generatePaths that hands the initial state to a transition callback
GeneratePathsRunning ==
    /\ pc = "idle"
    /\ LET pathToInitialState == NewPath(machine, <<>>)
       IN  /\ Explore(pathToInitialState, <<>>)
           /\ stack' = <<[path |-> pathToInitialState, idx |-> 1]>>
    /\ pc' = "running"
    /\ log' = Append(log, [op |-> "onTransition", p |-> 1, i |-> 1, state |-> machine.initial])
    /\ generators' = NewLoop(generators)
    /\ UNCHANGED <<machine, options, rejected, result, run, firstResult, dedupVars, rt, tasks,
                   outcome>>

\* Path.generatePaths up to its call of generateNextPaths
GeneratePaths ==
    /\ pc = "idle"
    /\ LET pathToInitialState == NewPath(machine, <<>>)
       IN  /\ Explore(pathToInitialState, <<>>)
           /\ stack' = <<[path |-> pathToInitialState, idx |-> 1]>>
    /\ pc' = "running"
    /\ generators' = NewLoop(generators)
    /\ UNCHANGED <<machine, options, rejected, result, run, firstResult, dedupVars, execVars>>

\* a rejected segment ends the loop (break in the place of continue)
StepRejectBreak ==
    /\ pc = "running" /\ stack # <<>>
    /\ Top.idx <= Len(Candidates)
    /\ ~FilterSegment(options.filterSegment, Candidates[Top.idx], Top.path)
    /\ rejected' = rejected \cup {Append(Addr(Len(stack)), Top.idx)}
    /\ stack' = [stack EXCEPT ![Len(stack)].idx = Len(Candidates) + 1]
    /\ generators' = Pull
    /\ UNCHANGED <<machine, options, pc, paths, explored, result, run, firstResult, dedupVars, execVars>>

\* one iteration of the loop of generateNextPaths: filterSegment rejects
StepReject ==
    /\ pc = "running" /\ stack # <<>>
    /\ Top.idx <= Len(Candidates)
    /\ ~FilterSegment(options.filterSegment, Candidates[Top.idx], Top.path)
    /\ rejected' = rejected \cup {Append(Addr(Len(stack)), Top.idx)}
    /\ stack' = [stack EXCEPT ![Len(stack)].idx = @ + 1]
    /\ generators' = Pull
    /\ UNCHANGED <<machine, options, pc, paths, explored, result, run, firstResult, dedupVars, execVars>>

\* one iteration: the segment is accepted and the new path is not extended
StepLeaf ==
    /\ pc = "running" /\ stack # <<>>
    /\ Top.idx <= Len(Candidates)
    /\ FilterSegment(options.filterSegment, Candidates[Top.idx], Top.path)
    /\ LET nextPath == NewPath(machine, Top.path \o <<Candidates[Top.idx]>>)
       IN  /\ ~(~IsFinal(machine, nextPath) /\ Len(nextPath) < MaxLength(options))
           /\ Explore(nextPath, Append(Addr(Len(stack)), Top.idx))
    /\ stack' = [stack EXCEPT ![Len(stack)].idx = @ + 1]
    /\ generators' = Pull
    /\ UNCHANGED <<machine, options, pc, rejected, result, run, firstResult, dedupVars, execVars>>

\* the new segment is pushed onto the segments array of the path that is
\* being extended, and the new path shares the array
StepRecursePush ==
    /\ pc = "running" /\ stack # <<>>
    /\ Top.idx <= Len(Candidates)
    /\ FilterSegment(options.filterSegment, Candidates[Top.idx], Top.path)
    /\ LET nextPath == NewPath(machine, Top.path \o <<Candidates[Top.idx]>>)
       IN  /\ ~IsFinal(machine, nextPath) /\ Len(nextPath) < MaxLength(options)
           /\ Explore(nextPath, Append(Addr(Len(stack)), Top.idx))
           /\ stack' = Append([stack EXCEPT ![Len(stack)].path = nextPath],
                              [path |-> nextPath, idx |-> 1])
    /\ generators' = NewLoop(Pull)
    /\ UNCHANGED <<machine, options, pc, rejected, result, run, firstResult, dedupVars, execVars>>

\* one iteration: the segment is accepted and generateNextPaths recurses
StepRecurse ==
    /\ pc = "running" /\ stack # <<>>
    /\ Top.idx <= Len(Candidates)
    /\ FilterSegment(options.filterSegment, Candidates[Top.idx], Top.path)
    /\ LET nextPath == NewPath(machine, Top.path \o <<Candidates[Top.idx]>>)
       IN  /\ ~IsFinal(machine, nextPath) /\ Len(nextPath) < MaxLength(options)
           /\ Explore(nextPath, Append(Addr(Len(stack)), Top.idx))
           /\ stack' = Append(stack, [path |-> nextPath, idx |-> 1])
    /\ generators' = NewLoop(Pull)
    /\ UNCHANGED <<machine, options, pc, rejected, result, run, firstResult, dedupVars, execVars>>

\* a nested call that never hands control back to the loop that called it
ReturnOutermostOnly ==
    /\ pc = "running" /\ stack # <<>>
    /\ Top.idx > Len(Candidates)
    /\ Len(stack) = 1
    /\ stack' = <<>>
    /\ generators' = EndLoop(Pull)
    /\ UNCHANGED <<machine, options, pc, paths, explored, rejected, result, run, firstResult, dedupVars, execVars>>

\* a nested call whose return makes the calling loop skip a candidate
ReturnSkipping ==
    /\ pc = "running" /\ stack # <<>>
    /\ Top.idx > Len(Candidates)
    /\ stack' = IF Len(stack) = 1 THEN <<>>
                ELSE [SubSeq(stack, 1, Len(stack) - 1) EXCEPT ![Len(stack) - 1].idx = @ + 2]
    /\ generators' = EndLoop(Pull)
    /\ UNCHANGED <<machine, options, pc, paths, explored, rejected, result, run, firstResult, dedupVars, execVars>>

\* the loop of the innermost generateNextPaths call ends: it returns to the
\* loop that called it, which moves on to its next candidate
Return ==
    /\ pc = "running" /\ stack # <<>>
    /\ Top.idx > Len(Candidates)
    /\ stack' = IF Len(stack) = 1 THEN <<>>
                ELSE [SubSeq(stack, 1, Len(stack) - 1) EXCEPT ![Len(stack) - 1].idx = @ + 1]
    /\ generators' = EndLoop(Pull)
    /\ UNCHANGED <<machine, options, pc, paths, explored, rejected, result, run, firstResult, dedupVars, execVars>>

\* the paths the generator has yielded, in the order it yielded them
RECURSIVE YieldedPaths(_)
YieldedPaths(ex) ==
    IF ex = <<>> THEN <<>>
    ELSE IF Head(ex).yielded THEN <<Head(ex).path>> \o YieldedPaths(Tail(ex))
    ELSE YieldedPaths(Tail(ex))

\* options with the deduplicate option the caller gave
WithDeduplicate(opts, deduplicate) ==
    [eventSource |-> opts.eventSource,
     maxLength |-> opts.maxLength,
     filterSegment |-> opts.filterSegment,
     filterPath |-> opts.filterPath,
     deduplicate |-> deduplicate]

\* makePaths that deduplicates whatever options.deduplicate says
MakePathsReturnDeduplicated ==
    /\ pc = "running" /\ stack = <<>>
    /\ \E deduplicate \in BOOLEAN :
        /\ "deduplicate" \in DOMAIN options => deduplicate = options.deduplicate
        /\ options' = WithDeduplicate(options, deduplicate)
        /\ result' = Deduplicate(paths)
        /\ paths' = SortLongestFirst(paths)
    /\ pc' = "done"
    /\ UNCHANGED <<machine, stack, explored, rejected, run, firstResult, generators, dedupVars, execVars>>

\* Path.makePaths after the generator is exhausted; options.deduplicate is
\* read here for the first time, so it is here that the option is fixed, and
\* a second call with the same options finds it as the first call left it
MakePathsReturn ==
    /\ pc = "running" /\ stack = <<>>
    /\ \E deduplicate \in BOOLEAN :
        /\ "deduplicate" \in DOMAIN options => deduplicate = options.deduplicate
        /\ options' = WithDeduplicate(options, deduplicate)
        /\ result' = IF deduplicate THEN Deduplicate(paths) ELSE paths
        /\ paths' = IF deduplicate THEN SortLongestFirst(paths) ELSE paths
    /\ pc' = "done"
    /\ UNCHANGED <<machine, stack, explored, rejected, run, firstResult, generators, dedupVars, execVars>>

\* Path.makePaths is called once more with the same machine and options:
\* the EventSource of the options is the object the first call used, and
\* the generators made for the first call are where that call left them
MakePathsAgain ==
    /\ pc = "done" /\ run = 1
    /\ run' = 2
    /\ firstResult' = YieldedPaths(explored)
    /\ pc' = "idle"
    /\ stack' = <<>> /\ paths' = <<>> /\ explored' = <<>> /\ rejected' = {}
    /\ result' = <<>>
    /\ UNCHANGED <<machine, options, generators, dedupVars, execVars>>

Next ==
    \/ GeneratePaths
    \/ StepReject
    \/ StepLeaf
    \/ StepRecurse
    \/ Return
    \/ MakePathsReturn

Spec == Init /\ [][Next]_vars

\* makePaths called with no filterSegment, filterPath and maxLength
InitDefaults ==
    /\ Init
    /\ options.filterSegment = "default"
    /\ options.filterPath = "default"
    /\ options.maxLength = <<>>

\* the consumer loop of makePaths keeps pulling from the generator
FairSpec == InitDefaults /\ [][Next]_vars /\ WF_vars(Next)

\* the same call made twice
NextTwice == Next \/ MakePathsAgain

SpecTwice == Init /\ [][NextTwice]_vars

(***************************************************************************)
(* Path.deduplicate on arrays of paths built with new Path(machine,        *)
(* segments).                                                              *)
(***************************************************************************)
\* the segments appended after the initial segment
SegPool ==
    { Segment(Event("A", "none"), "a"),
      Segment(Event("A", "none"), "ab") }

SeqsUpTo(S, n) == UNION { [1..k -> S] : k \in 0..n }

\* paths from the initial state "a" with up to MaxSegs further segments
PathPool ==
    { <<Segment(Event(InitType, "none"), "a")>> \o tail : tail \in SeqsUpTo(SegPool, MaxSegs) }

InitDedup ==
    /\ dedupArg \in SeqsUpTo(PathPool, MaxPaths)
    /\ dedupIn = dedupArg
    /\ dedupOut = <<>>
    /\ dedupTwice = <<>>
    /\ pc = "dedup"
    /\ machine = MakeMachine([next |-> <<>>, tA |-> "a"], [next |-> <<>>, tA |-> "b"], "dead", FALSE)
    /\ options = [eventSource |-> [t \in Types |-> Unregistered], maxLength |-> <<>>,
                  filterSegment |-> "default", filterPath |-> "default"]
    /\ stack = <<>>
    /\ paths = <<>>
    /\ explored = <<>>
    /\ rejected = {}
    /\ result = <<>>
    /\ run = 1
    /\ firstResult = <<>>
    /\ generators = NoGenerators
    /\ rt = <<>>
    /\ tasks = <<>>
    /\ log = <<>>
    /\ outcome = NoOutcome

\* Path.deduplicate(paths)
DeduplicateCall ==
    /\ pc = "dedup"
    /\ dedupOut' = Deduplicate(dedupIn)
    /\ dedupIn' = SortLongestFirst(dedupIn)
    /\ pc' = "deduped"
    /\ UNCHANGED <<dedupArg, dedupTwice>>
    /\ UNCHANGED <<machine, options, stack, paths, explored, rejected, result, run, firstResult, generators, execVars>>

\* Path.deduplicate applied to a copy of what it returned
DeduplicateAgain ==
    /\ pc = "deduped"
    /\ dedupTwice' = Deduplicate(dedupOut)
    /\ pc' = "dedupedTwice"
    /\ UNCHANGED <<dedupArg, dedupIn, dedupOut>>
    /\ UNCHANGED <<machine, options, stack, paths, explored, rejected, result, run, firstResult, generators, execVars>>

NextDedup == DeduplicateCall \/ DeduplicateAgain

SpecDedup == InitDedup /\ [][NextDedup]_vars

(***************************************************************************)
(* Executors: withExecutors, EventExecutor and StateExecutor, called on a  *)
(* state the way the tests call them.  Every call of user code and every   *)
(* completion of an exec is written to log.                                *)
(***************************************************************************)
\* JavaScript values used as Map keys
JsString(str) == [tag |-> "string", val |-> str]
JsObject(obj) == [tag |-> "object", val |-> obj]

\* new Map(Object.entries(execs)): the keys of a registry are strings;
\* throws holds the keys whose callback fails
Registries(keys) ==
    UNION { {[keys |-> K, throws |-> T] : T \in SUBSET K} : K \in SUBSET keys }

\* Map.prototype.get(key): a string key is found by an equal string only;
\* <<>> stands for undefined
MapGet(execs, key) ==
    IF key.tag = "string" /\ key.val \in execs.keys THEN <<key.val>> ELSE <<>>

\* a vi.fn() executor, an EventExecutor and a StateExecutor
MockExecutor(fails) == [kind |-> "mock", fails |-> fails]
EventExecutor(execs) == [kind |-> "event", execs |-> execs]
StateExecutor(execs) == [kind |-> "state", execs |-> execs]

\* EventExecutor.exec: const event = state.event; this.execs.get(event)
EventExecutorKeys(state) == <<JsObject(state.event)>>

\* the StateExecutor loop taking the state strings last to first
StateExecutorKeysReversed(state) ==
    [i \in 1..Len(state.strings) |-> JsString(state.strings[Len(state.strings) + 1 - i])]

\* StateExecutor.exec: for (const stateValue of state.toStrings())
StateExecutorKeys(state) ==
    [i \in 1..Len(state.strings) |-> JsString(state.strings[i])]

\* the keys an executor looks up for a state, in order
ExecKeys(executor, state) ==
    CASE executor.kind = "event" -> EventExecutorKeys(state)
      [] executor.kind = "state" -> StateExecutorKeys(state)
      [] executor.kind = "mock" -> <<>>

\* the arguments an executor hands to a callback it found
ExecArgs(executor, state) ==
    IF executor.kind = "event" THEN <<state.event, state>> ELSE <<state>>

\* the states handed to the callback: an event and the state strings
\* state.toStrings() returns
ExecStates ==
    {[event |-> Event(t, "none"), strings |-> ss] :
        t \in Types, ss \in {<<"a">>, <<"p", "p.c">>}}

Executors ==
    {MockExecutor(f) : f \in BOOLEAN}
        \cup {EventExecutor(r) : r \in Registries({"A"})}
        \cup {StateExecutor(r) : r \in Registries({"p", "p.c"})}

InitExec ==
    /\ rt \in [state : ExecStates, executors : UNION { [1..n -> Executors] : n \in 0..MaxExecutors }]
    /\ tasks = <<>>
    /\ log = <<>>
    /\ outcome = NoOutcome
    /\ pc = "exec"
    /\ machine = MakeMachine([next |-> <<>>, tA |-> "a"], [next |-> <<>>, tA |-> "b"], "dead", FALSE)
    /\ options = [eventSource |-> [t \in Types |-> Unregistered], maxLength |-> <<>>,
                  filterSegment |-> "default", filterPath |-> "default"]
    /\ stack = <<>>
    /\ paths = <<>>
    /\ explored = <<>>
    /\ rejected = {}
    /\ result = <<>>
    /\ run = 1
    /\ firstResult = <<>>
    /\ generators = NoGenerators
    /\ dedupArg = <<>>
    /\ dedupIn = <<>>
    /\ dedupOut = <<>>
    /\ dedupTwice = <<>>

\* the call in progress and the executor it has reached
Task == tasks[1]
Executor == rt.executors[Task.k]

\* the callback withExecutors(...executors) returned is called with a state
OnTransitionCall ==
    /\ pc = "exec" /\ outcome = NoOutcome
    /\ outcome' = Pending
    /\ tasks' = <<[k |-> 1, j |-> 1, at |-> "loop"]>>
    /\ UNCHANGED <<rt, log, genVars, dedupVars>>

\* for (const executor of executors) await executor.exec(state): the call
ExecutorExec ==
    /\ pc = "exec" /\ tasks # <<>> /\ Task.at = "loop"
    /\ Task.k <= Len(rt.executors)
    /\ log' = Append(log, [op |-> "exec", k |-> Task.k, state |-> rt.state])
    /\ tasks' = <<[Task EXCEPT !.at = "exec", !.j = 1]>>
    /\ UNCHANGED <<rt, outcome, genVars, dedupVars>>

\* the exec of a mock executor completes
MockReturn ==
    /\ pc = "exec" /\ tasks # <<>> /\ Task.at = "exec"
    /\ Executor.kind = "mock" /\ ~Executor.fails
    /\ log' = Append(log, [op |-> "execEnd", k |-> Task.k, ok |-> TRUE])
    /\ tasks' = <<[Task EXCEPT !.at = "loop", !.k = @ + 1]>>
    /\ UNCHANGED <<rt, outcome, genVars, dedupVars>>

\* a failing executor whose error the loop catches and drops
ExecutorThrowSwallowed ==
    /\ pc = "exec" /\ tasks # <<>> /\ Task.at = "exec"
    /\ Executor.kind = "mock" /\ Executor.fails
    /\ log' = Append(log, [op |-> "execEnd", k |-> Task.k, ok |-> FALSE])
    /\ tasks' = <<[Task EXCEPT !.at = "loop", !.k = @ + 1]>>
    /\ UNCHANGED <<rt, outcome, genVars, dedupVars>>

\* the exec of a mock executor fails: the await in withExecutors throws and
\* the promise of the callback is rejected
ExecutorThrow ==
    /\ pc = "exec" /\ tasks # <<>> /\ Task.at = "exec"
    /\ Executor.kind = "mock" /\ Executor.fails
    /\ log' = Append(log, [op |-> "execEnd", k |-> Task.k, ok |-> FALSE])
    /\ outcome' = Rejected(<<Task.k>>)
    /\ tasks' = <<>>
    /\ UNCHANGED <<rt, genVars, dedupVars>>

\* EventExecutor.exec / StateExecutor.exec: the next this.execs.get(key)
\* and, when a callback is registered, its call
ExecLookup ==
    /\ pc = "exec" /\ tasks # <<>> /\ Task.at = "exec"
    /\ Executor.kind # "mock"
    /\ Task.j <= Len(ExecKeys(Executor, rt.state))
    /\ LET cb == MapGet(Executor.execs, ExecKeys(Executor, rt.state)[Task.j])
       IN  IF cb = <<>>
           THEN /\ tasks' = <<[Task EXCEPT !.j = @ + 1]>>
                /\ log' = log
           ELSE /\ tasks' = <<[Task EXCEPT !.at = "callback"]>>
                /\ log' = Append(log, [op |-> "callback", k |-> Task.k, key |-> cb[1],
                                       args |-> ExecArgs(Executor, rt.state)])
    /\ UNCHANGED <<rt, outcome, genVars, dedupVars>>

\* EventExecutor.exec / StateExecutor.exec: every key was looked up
ExecReturn ==
    /\ pc = "exec" /\ tasks # <<>> /\ Task.at = "exec"
    /\ Executor.kind # "mock"
    /\ Task.j > Len(ExecKeys(Executor, rt.state))
    /\ log' = Append(log, [op |-> "execEnd", k |-> Task.k, ok |-> TRUE])
    /\ tasks' = <<[Task EXCEPT !.at = "loop", !.k = @ + 1]>>
    /\ UNCHANGED <<rt, outcome, genVars, dedupVars>>

\* the key of the callback that is running
RunningKey == ExecKeys(Executor, rt.state)[Task.j].val

\* a registered callback completes
CallbackReturn ==
    /\ pc = "exec" /\ tasks # <<>> /\ Task.at = "callback"
    /\ RunningKey \notin Executor.execs.throws
    /\ log' = Append(log, [op |-> "callbackEnd", k |-> Task.k, key |-> RunningKey, ok |-> TRUE])
    /\ tasks' = <<[Task EXCEPT !.at = "exec", !.j = @ + 1]>>
    /\ UNCHANGED <<rt, outcome, genVars, dedupVars>>

\* a registered callback fails: the exec that awaited it fails, and so does
\* the callback of withExecutors
CallbackThrow ==
    /\ pc = "exec" /\ tasks # <<>> /\ Task.at = "callback"
    /\ RunningKey \in Executor.execs.throws
    /\ log' = log \o <<[op |-> "callbackEnd", k |-> Task.k, key |-> RunningKey, ok |-> FALSE],
                       [op |-> "execEnd", k |-> Task.k, ok |-> FALSE]>>
    /\ outcome' = Rejected(<<Task.k, RunningKey>>)
    /\ tasks' = <<>>
    /\ UNCHANGED <<rt, genVars, dedupVars>>

\* the loop of withExecutors is over: the promise of the callback resolves
OnTransitionReturn ==
    /\ pc = "exec" /\ tasks # <<>> /\ Task.at = "loop"
    /\ Task.k > Len(rt.executors)
    /\ outcome' = Resolved
    /\ tasks' = <<>>
    /\ UNCHANGED <<rt, log, genVars, dedupVars>>

NextExec ==
    \/ OnTransitionCall
    \/ ExecutorExec
    \/ MockReturn
    \/ ExecutorThrow
    \/ ExecLookup
    \/ ExecReturn
    \/ CallbackReturn
    \/ CallbackThrow
    \/ OnTransitionReturn

SpecExec == InitExec /\ [][NextExec]_vars

(***************************************************************************)
(* Running paths: Path.run, Segment.run, PathRunner.run, Path.runPaths.    *)
(* A task is one call of Path.run (or PathRunner.run).  It is suspended    *)
(* at every await: of a callback of the user, of an action of the machine, *)
(* and of the library's own async functions (runActions, applyEvent,       *)
(* segment.run).  The code between two awaits runs without interruption,   *)
(* and suspended tasks are resumed in the order their awaits were settled. *)
(***************************************************************************)
\* machine.transition(state, event) takes a transition (and so has actions)
Taken(m, s, e) ==
    /\ e.type \in Range(m.next[s])
    /\ ~(m.guarded /\ e.payload = "p2")

\* an action object of the machine; exec is missing in a built-in action
Action(name, exec) == [name |-> name, exec |-> exec]

ActionLists ==
    { <<>>,
      <<Action("x", TRUE)>>,
      <<Action("n", FALSE), Action("x", TRUE), Action("y", TRUE)>> }

\* nextState.actions of machine.transition(state, event)
StateActions(m, s, e) == IF Taken(m, s, e) THEN rt.actions[e.type] ELSE <<>>

\* the machine the paths are run on: a -A-> b, a -B-> ab, b -A-> a, ab final
RunMachine(guarded) ==
    MakeMachine([next |-> <<"A", "B">>, tA |-> "b"], [next |-> <<"A">>, tA |-> "a"],
                "final", guarded)

\* the segments of paths built with new Path(machine, segments)
RunSegPool ==
    { Segment(Event("A", "none"), "b"),
      Segment(Event("A", "none"), "a"),
      Segment(Event("A", "p2"), "a"),
      Segment(Event("B", "none"), "ab") }

RunPathPool ==
    { <<Segment(Event(InitType, "none"), "a")>> \o tail : tail \in SeqsUpTo(RunSegPool, MaxRunSegs) }

\* the paths handed to Path.runPaths
RunPathsPool ==
    { <<Segment(Event(InitType, "none"), "a")>>,
      <<Segment(Event(InitType, "none"), "a"), Segment(Event("A", "none"), "b")>>,
      <<Segment(Event(InitType, "none"), "a"), Segment(Event("A", "none"), "a")>> }

\* the onTransition argument: undefined, or a callback that fails on the
\* states of throws
OnTransitionFns == {<<>>} \cup {<<[throws |-> S]>> : S \in {{}, {"a"}, {"b"}}}

\* the inputs of one run: path.run(onTransition) or runner.run(path)
RunInputs ==
    [mode : {"Path.run"}, paths : {<<q>> : q \in RunPathPool},
     actions : [Types -> ActionLists], throws : SUBSET {"x", "y"},
     onTransition : OnTransitionFns]
    \cup
    [mode : {"PathRunner.run"}, paths : {<<q>> : q \in RunPathPool},
     actions : [Types -> ActionLists], throws : SUBSET {"x", "y"},
     onTransition : OnTransitionFns \ {<<>>}]

\* the inputs of Path.runPaths(paths, onTransition)
RunPathsInputs ==
    [mode : {"Path.runPaths"}, paths : SeqsUpTo(RunPathsPool, MaxRunPaths),
     actions : {[t \in Types |-> <<Action("n", FALSE), Action("x", TRUE)>>]},
     throws : {{}, {"x"}},
     onTransition : {<<>>} \cup {<<[throws |-> S]>> : S \in {{}, {"a"}, {"b"}}}]

\* nothing has run yet
RunStart(inputs) ==
    /\ rt \in inputs
    /\ machine \in {RunMachine(g) : g \in BOOLEAN}
    /\ rt.mode = "Path.runPaths" => ~machine.guarded
    /\ tasks = <<>>
    /\ log = <<>>
    /\ outcome = NoOutcome
    /\ pc = "run"
    /\ options = [eventSource |-> [t \in Types |-> Unregistered], maxLength |-> <<>>,
                  filterSegment |-> "default", filterPath |-> "default"]
    /\ stack = <<>>
    /\ paths = <<>>
    /\ explored = <<>>
    /\ rejected = {}
    /\ result = <<>>
    /\ run = 1
    /\ firstResult = <<>>
    /\ generators = NoGenerators
    /\ dedupArg = <<>>
    /\ dedupIn = <<>>
    /\ dedupOut = <<>>
    /\ dedupTwice = <<>>

InitRun == RunStart(RunInputs)

InitRunPaths == RunStart(RunPathsInputs)

\* await onTransition?.(currentState): the call of the callback, if any,
\* followed by its failure when the call throws before it returns (sync)
OnTransitionLog(p, i, state, sync) ==
    IF rt.onTransition = <<>> THEN <<>>
    ELSE <<[op |-> "onTransition", p |-> p, i |-> i, state |-> state]>>
            \o (IF sync THEN <<[op |-> "onTransitionEnd", p |-> p, i |-> i, ok |-> FALSE]>>
                ELSE <<>>)

\* onTransition fails when it is called with state
ThrowsOn(state) == rt.onTransition # <<>> /\ state \in rt.onTransition[1].throws

\* Path.run up to its first await: currentState = machine.initialState and
\* onTransition is called with it. An await of undefined (no callback) puts
\* the rest of run on the microtask queue at once, at place q. When the call
\* throws before it returns (sync), run throws before its first await and
\* its promise is rejected
StartTask(p, sync) ==
    [p |-> p, i |-> 1, cur |-> machine.initial, next |-> machine.initial, a |-> 1,
     at |-> IF sync THEN "rejected" ELSE "onTransition",
     error |-> IF sync THEN <<"onTransition", machine.initial>> ELSE <<>>,
     q |-> IF rt.onTransition = <<>> THEN p ELSE 0]

\* the awaits of the library's own async functions: the caller of
\* runActions, of applyEvent and of segment.run (or runSegment) is resumed
\* from the microtask queue once the promise it awaits is settled
LibraryAwaits == {"awaitRunActions", "awaitApplyEvent", "awaitSegment"}

\* the awaits of the user's code: its promise settles when the user's code
\* decides, and only then is the awaiting function put on the queue
UserAwaits == {"onTransition", "action"}

\* a task at an await, or over
Suspended(task) ==
    task.at \in UserAwaits \cup LibraryAwaits \cup {"resolved", "rejected"}

\* the microtask queue: the tasks with q > 0, the one with q = 1 first
QueueLen(ts) == Cardinality({u \in DOMAIN ts : ts[u].q > 0})

\* the task at the head of the queue is taken off it
Dequeue == [u \in DOMAIN tasks |->
              IF tasks[u].q > 0 THEN [tasks[u] EXCEPT !.q = @ - 1] ELSE tasks[u]]

\* synchronous code is not interrupted: a task moves only when every other
\* task is at an await, and a task at an await is resumed only from the head
\* of the microtask queue
CanStep(t) ==
    /\ pc = "run"
    /\ t \in 1..Len(tasks)
    /\ \A u \in 1..Len(tasks) : u # t => Suspended(tasks[u])
    /\ Suspended(tasks[t]) => tasks[t].q = 1

PathOf(t) == rt.paths[tasks[t].p]
SegmentOf(t) == PathOf(t)[tasks[t].i]
ActionsOf(t) == StateActions(machine, tasks[t].cur, SegEvent(SegmentOf(t)))

\* a rejected Path.run rejects the promise of the caller who awaits it;
\* Path.runPaths does not await the promise of path.run
Fail(t, error) ==
    /\ tasks' = [Dequeue EXCEPT ![t].at = "rejected", ![t].error = error]
    /\ outcome' = IF rt.mode = "Path.runPaths" THEN outcome ELSE Rejected(error)

\* Path.run that does not call onTransition for the initial state
RunCallSkipInitial ==
    /\ pc = "run" /\ outcome = NoOutcome
    /\ rt.mode \in {"Path.run", "PathRunner.run"}
    /\ tasks' = <<[StartTask(1, FALSE) EXCEPT !.at = "segment", !.i = 2, !.q = 0]>>
    /\ log' = log
    /\ outcome' = Pending
    /\ UNCHANGED <<rt, genVars, dedupVars>>

\* path.run(onTransition) / runner.run(path), awaited by the caller. A
\* failing onTransition either throws in the call (sync) or returns a promise
\* that is rejected later
RunCall ==
    /\ pc = "run" /\ outcome = NoOutcome
    /\ rt.mode \in {"Path.run", "PathRunner.run"}
    /\ \E sync \in BOOLEAN :
        /\ sync => ThrowsOn(machine.initial)
        /\ tasks' = <<StartTask(1, sync)>>
        /\ log' = log \o OnTransitionLog(1, 1, machine.initial, sync)
        /\ outcome' = IF sync THEN Rejected(<<"onTransition", machine.initial>>) ELSE Pending
    /\ UNCHANGED <<rt, genVars, dedupVars>>

\* Path.runPaths(paths, onTransition): the loop calls path.run(onTransition)
\* for every path without awaiting it, then the promise of runPaths resolves
RunPathsCall ==
    /\ pc = "run" /\ outcome = NoOutcome
    /\ rt.mode = "Path.runPaths"
    /\ \E sync \in [1..Len(rt.paths) -> BOOLEAN] :
        /\ \A p \in 1..Len(rt.paths) : sync[p] => ThrowsOn(machine.initial)
        /\ tasks' = [p \in 1..Len(rt.paths) |-> StartTask(p, sync[p])]
        /\ log' = log \o Flatten([p \in 1..Len(rt.paths) |->
                                    OnTransitionLog(p, 1, machine.initial, sync[p])])
    /\ outcome' = Resolved
    /\ UNCHANGED <<rt, genVars, dedupVars>>

\* the promise that onTransition or action.exec returned settles, while no
\* task is running: the function that awaits it is put on the microtask queue
CallbackSettle ==
    \E t \in 1..Len(tasks) :
        /\ pc = "run"
        /\ \A u \in 1..Len(tasks) : Suspended(tasks[u])
        /\ tasks[t].at \in UserAwaits /\ tasks[t].q = 0
        /\ tasks' = [tasks EXCEPT ![t].q = QueueLen(tasks) + 1]
        /\ UNCHANGED <<rt, log, outcome, genVars, dedupVars>>

\* await onTransition?.(currentState) completes
TransitionCallbackReturn ==
    \E t \in 1..Len(tasks) :
        /\ CanStep(t) /\ tasks[t].at = "onTransition"
        /\ ~ThrowsOn(tasks[t].cur)
        /\ log' = log \o (IF rt.onTransition = <<>> THEN <<>>
                          ELSE <<[op |-> "onTransitionEnd", p |-> tasks[t].p, i |-> tasks[t].i, ok |-> TRUE]>>)
        /\ tasks' = [Dequeue EXCEPT ![t].at = "segment", ![t].i = @ + 1]
        /\ UNCHANGED <<rt, outcome, genVars, dedupVars>>

\* await onTransition?.(currentState) is resumed with the rejection of the
\* promise that onTransition returned
TransitionCallbackThrow ==
    \E t \in 1..Len(tasks) :
        /\ CanStep(t) /\ tasks[t].at = "onTransition"
        /\ ThrowsOn(tasks[t].cur)
        /\ log' = Append(log, [op |-> "onTransitionEnd", p |-> tasks[t].p, i |-> tasks[t].i, ok |-> FALSE])
        /\ Fail(t, <<"onTransition", tasks[t].cur>>)
        /\ UNCHANGED <<rt, genVars, dedupVars>>

\* the event of every segment applied to the initial state of the machine
SegmentRunFromInitial ==
    \E t \in 1..Len(tasks) :
        /\ CanStep(t) /\ tasks[t].at = "segment"
        /\ tasks[t].i <= Len(PathOf(t))
        /\ LET to == Transition(machine, machine.initial, SegEvent(SegmentOf(t)))
           IN  /\ log' = Append(log, [op |-> "transition", p |-> tasks[t].p, i |-> tasks[t].i,
                                      from |-> tasks[t].cur, event |-> SegEvent(SegmentOf(t)),
                                      to |-> to])
               /\ tasks' = [tasks EXCEPT ![t].at = "actions", ![t].next = to, ![t].a = 1]
        /\ UNCHANGED <<rt, outcome, genVars, dedupVars>>

\* Segment.applyEvent / PathRunner.runSegment:
\* nextState = machine.transition(state, this.event)
SegmentRun ==
    \E t \in 1..Len(tasks) :
        /\ CanStep(t) /\ tasks[t].at = "segment"
        /\ tasks[t].i <= Len(PathOf(t))
        /\ LET to == Transition(machine, tasks[t].cur, SegEvent(SegmentOf(t)))
           IN  /\ log' = Append(log, [op |-> "transition", p |-> tasks[t].p, i |-> tasks[t].i,
                                      from |-> tasks[t].cur, event |-> SegEvent(SegmentOf(t)),
                                      to |-> to])
               /\ tasks' = [tasks EXCEPT ![t].at = "actions", ![t].next = to, ![t].a = 1]
        /\ UNCHANGED <<rt, outcome, genVars, dedupVars>>

\* runActions: await action.exec(context, event, meta), the call. A failing
\* action either throws in the call (sync), so that runActions throws at once,
\* its promise is rejected and the function that awaits it is put on the
\* queue, or returns a promise that is rejected later
ActionExec ==
    \E t \in 1..Len(tasks), sync \in BOOLEAN :
        /\ CanStep(t) /\ tasks[t].at = "actions"
        /\ tasks[t].a <= Len(ActionsOf(t))
        /\ ActionsOf(t)[tasks[t].a].exec
        /\ sync => ActionsOf(t)[tasks[t].a].name \in rt.throws
        /\ LET name == ActionsOf(t)[tasks[t].a].name
               call == [op |-> "action", p |-> tasks[t].p, i |-> tasks[t].i, name |-> name]
               end == [op |-> "actionEnd", p |-> tasks[t].p, i |-> tasks[t].i,
                       name |-> name, ok |-> FALSE]
           IN  IF sync
               THEN /\ log' = log \o <<call, end>>
                    /\ tasks' = [tasks EXCEPT ![t].at = "awaitRunActions",
                                              ![t].error = <<"action", name>>,
                                              ![t].q = QueueLen(tasks) + 1]
               ELSE /\ log' = Append(log, call)
                    /\ tasks' = [tasks EXCEPT ![t].at = "action"]
        /\ UNCHANGED <<rt, outcome, genVars, dedupVars>>

\* runActions: typeof action.exec is not 'function'
ActionSkip ==
    \E t \in 1..Len(tasks) :
        /\ CanStep(t) /\ tasks[t].at = "actions"
        /\ tasks[t].a <= Len(ActionsOf(t))
        /\ ~ActionsOf(t)[tasks[t].a].exec
        /\ tasks' = [tasks EXCEPT ![t].a = @ + 1]
        /\ UNCHANGED <<rt, log, outcome, genVars, dedupVars>>

\* runActions: await action.exec(...) completes
ActionReturn ==
    \E t \in 1..Len(tasks) :
        /\ CanStep(t) /\ tasks[t].at = "action"
        /\ ActionsOf(t)[tasks[t].a].name \notin rt.throws
        /\ log' = Append(log, [op |-> "actionEnd", p |-> tasks[t].p, i |-> tasks[t].i,
                               name |-> ActionsOf(t)[tasks[t].a].name, ok |-> TRUE])
        /\ tasks' = [Dequeue EXCEPT ![t].at = "actions", ![t].a = @ + 1]
        /\ UNCHANGED <<rt, outcome, genVars, dedupVars>>

\* runActions: await action.exec(...) is resumed with the rejection of the
\* promise that the action returned: the promise of runActions is rejected
\* and the function that awaits it is put on the queue
ActionThrow ==
    \E t \in 1..Len(tasks) :
        /\ CanStep(t) /\ tasks[t].at = "action"
        /\ ActionsOf(t)[tasks[t].a].name \in rt.throws
        /\ log' = Append(log, [op |-> "actionEnd", p |-> tasks[t].p, i |-> tasks[t].i,
                               name |-> ActionsOf(t)[tasks[t].a].name, ok |-> FALSE])
        /\ tasks' = [Dequeue EXCEPT ![t].at = "awaitRunActions",
                                    ![t].error = <<"action", ActionsOf(t)[tasks[t].a].name>>,
                                    ![t].q = QueueLen(Dequeue) + 1]
        /\ UNCHANGED <<rt, outcome, genVars, dedupVars>>

\* runActions: the loop over the actions is over and its promise resolves;
\* applyEvent (runSegment in a PathRunner), which awaits it, is put on the
\* queue
RunActionsReturn ==
    \E t \in 1..Len(tasks) :
        /\ CanStep(t) /\ tasks[t].at = "actions"
        /\ tasks[t].a > Len(ActionsOf(t))
        /\ tasks' = [tasks EXCEPT ![t].at = "awaitRunActions", ![t].q = QueueLen(tasks) + 1]
        /\ UNCHANGED <<rt, log, outcome, genVars, dedupVars>>

\* the function that awaits runActions: Segment.applyEvent, whose caller
\* Segment.run awaits it in turn, or PathRunner.runSegment, awaited by run
AwaitAbove(at) ==
    CASE at = "awaitRunActions" ->
            IF rt.mode = "PathRunner.run" THEN "awaitSegment" ELSE "awaitApplyEvent"
      [] at = "awaitApplyEvent" -> "awaitSegment"

\* await this.runActions(nextState) is resumed: applyEvent / runSegment
\* returns nextState, and its caller is put on the queue
ApplyEventReturn ==
    \E t \in 1..Len(tasks) :
        /\ CanStep(t) /\ tasks[t].at = "awaitRunActions"
        /\ tasks[t].error = <<>>
        /\ tasks' = [Dequeue EXCEPT ![t].at = AwaitAbove("awaitRunActions"),
                                    ![t].q = QueueLen(Dequeue) + 1]
        /\ UNCHANGED <<rt, log, outcome, genVars, dedupVars>>

\* an await of runActions or of applyEvent is resumed with a rejection:
\* the awaiting function throws, its own promise is rejected and its caller
\* is put on the queue
Rethrow ==
    \E t \in 1..Len(tasks) :
        /\ CanStep(t) /\ tasks[t].at \in {"awaitRunActions", "awaitApplyEvent"}
        /\ tasks[t].error # <<>>
        /\ tasks' = [Dequeue EXCEPT ![t].at = AwaitAbove(tasks[t].at),
                                    ![t].q = QueueLen(Dequeue) + 1]
        /\ UNCHANGED <<rt, log, outcome, genVars, dedupVars>>

\* Segment.assertMatchesTarget(nextState): this.state.matches(state.value)
MatchesTarget(t) == SegmentOf(t).state = tasks[t].next

\* Segment.run is resumed after await this.applyEvent(state) and
\* assertMatchesTarget throws: the promise of segment.run is rejected
SegmentMismatch ==
    \E t \in 1..Len(tasks) :
        /\ CanStep(t) /\ tasks[t].at = "awaitApplyEvent"
        /\ tasks[t].error = <<>>
        /\ ~MatchesTarget(t)
        /\ log' = Append(log, [op |-> "mismatch", p |-> tasks[t].p, i |-> tasks[t].i])
        /\ tasks' = [Dequeue EXCEPT ![t].at = "awaitSegment",
                                    ![t].error = <<"mismatch", SegmentOf(t).state, tasks[t].next>>,
                                    ![t].q = QueueLen(Dequeue) + 1]
        /\ UNCHANGED <<rt, outcome, genVars, dedupVars>>

\* Segment.run is resumed after await this.applyEvent(state), the check
\* passes and it returns nextState
SegmentReturn ==
    \E t \in 1..Len(tasks) :
        /\ CanStep(t) /\ tasks[t].at = "awaitApplyEvent"
        /\ tasks[t].error = <<>>
        /\ MatchesTarget(t)
        /\ tasks' = [Dequeue EXCEPT ![t].at = "awaitSegment", ![t].q = QueueLen(Dequeue) + 1]
        /\ UNCHANGED <<rt, log, outcome, genVars, dedupVars>>

\* currentState = await segment.run(currentState) is resumed with the next
\* state, and onTransition is called with it. A call that throws before it
\* returns (sync) makes run throw at once
PathRunResume ==
    \E t \in 1..Len(tasks), sync \in BOOLEAN :
        /\ CanStep(t) /\ tasks[t].at = "awaitSegment"
        /\ tasks[t].error = <<>>
        /\ sync => ThrowsOn(tasks[t].next)
        /\ IF sync
           THEN /\ log' = log \o OnTransitionLog(tasks[t].p, tasks[t].i, tasks[t].next, TRUE)
                /\ tasks' = [Dequeue EXCEPT ![t].at = "rejected", ![t].cur = tasks[t].next,
                                            ![t].error = <<"onTransition", tasks[t].next>>]
                /\ outcome' = IF rt.mode = "Path.runPaths" THEN outcome
                              ELSE Rejected(<<"onTransition", tasks[t].next>>)
           ELSE /\ log' = log \o OnTransitionLog(tasks[t].p, tasks[t].i, tasks[t].next, FALSE)
                /\ tasks' = [Dequeue EXCEPT ![t].at = "onTransition", ![t].cur = tasks[t].next,
                                            ![t].q = IF rt.onTransition = <<>>
                                                     THEN QueueLen(Dequeue) + 1 ELSE 0]
                /\ outcome' = outcome
        /\ UNCHANGED <<rt, genVars, dedupVars>>

\* await segment.run(currentState) is resumed with a rejection: run throws
\* and its promise is rejected
PathRunThrow ==
    \E t \in 1..Len(tasks) :
        /\ CanStep(t) /\ tasks[t].at = "awaitSegment"
        /\ tasks[t].error # <<>>
        /\ Fail(t, tasks[t].error)
        /\ UNCHANGED <<rt, log, genVars, dedupVars>>

\* the loop over this.segments.slice(1) is over: the promise of run resolves
PathRunReturn ==
    \E t \in 1..Len(tasks) :
        /\ CanStep(t) /\ tasks[t].at = "segment"
        /\ tasks[t].i > Len(PathOf(t))
        /\ tasks' = [tasks EXCEPT ![t].at = "resolved"]
        /\ outcome' = IF rt.mode = "Path.runPaths" THEN outcome ELSE Resolved
        /\ UNCHANGED <<rt, log, genVars, dedupVars>>

NextRun ==
    \/ RunCall
    \/ CallbackSettle
    \/ TransitionCallbackReturn
    \/ TransitionCallbackThrow
    \/ SegmentRun
    \/ ActionExec
    \/ ActionSkip
    \/ ActionReturn
    \/ ActionThrow
    \/ RunActionsReturn
    \/ ApplyEventReturn
    \/ Rethrow
    \/ SegmentMismatch
    \/ SegmentReturn
    \/ PathRunResume
    \/ PathRunThrow
    \/ PathRunReturn

NextRunPaths ==
    \/ RunPathsCall
    \/ CallbackSettle
    \/ TransitionCallbackReturn
    \/ TransitionCallbackThrow
    \/ SegmentRun
    \/ ActionExec
    \/ ActionSkip
    \/ ActionReturn
    \/ ActionThrow
    \/ RunActionsReturn
    \/ ApplyEventReturn
    \/ Rethrow
    \/ SegmentMismatch
    \/ SegmentReturn
    \/ PathRunResume
    \/ PathRunThrow
    \/ PathRunReturn

SpecRun == InitRun /\ [][NextRun]_vars

SpecRunPaths == InitRunPaths /\ [][NextRunPaths]_vars

(***************************************************************************)
(* Generation with a collaborator that fails: machine.transition or a      *)
(* filter of the user throws.                                              *)
(***************************************************************************)
\* what throws: machine.transition on an event of a type in a state,
\* filterSegment on a segment (event type and target), filterPath on a path
\* (event type and target of its last segment), or nothing
Faults ==
    {[kind |-> "none", type |-> "A", state |-> "a"]}
        \cup {[kind |-> k, type |-> t, state |-> s] :
                k \in {"transition", "filterSegment", "filterPath"}, t \in Types, s \in States}
        \cup {[kind |-> "filterPath", type |-> InitType, state |-> "a"]}

InitFail ==
    /\ machine \in Machines
    /\ options \in OptionSets(machine)
    /\ options.filterSegment = "default"
    /\ options.filterPath = "default"
    /\ options.maxLength = <<>>
    /\ rt \in [fault : Faults]
    /\ pc = "idle"
    /\ stack = <<>>
    /\ paths = <<>>
    /\ explored = <<>>
    /\ rejected = {}
    /\ result = <<>>
    /\ run = 1
    /\ firstResult = <<>>
    /\ generators = NoGenerators
    /\ dedupArg = <<>>
    /\ dedupIn = <<>>
    /\ dedupOut = <<>>
    /\ dedupTwice = <<>>
    /\ tasks = <<>>
    /\ log = <<>>
    /\ outcome = NoOutcome

\* generateNextSegments throws in machine.transition(fromState, event), or
\* filterSegment(nextSegment, this) throws
SegmentThrows(from, segment) ==
    \/ /\ rt.fault.kind = "transition"
       /\ from = rt.fault.state /\ segment.type = rt.fault.type
    \/ /\ rt.fault.kind = "filterSegment"
       /\ segment.type = rt.fault.type /\ segment.state = rt.fault.state

\* filterPath(path) throws
PathThrows(path) ==
    /\ rt.fault.kind = "filterPath"
    /\ LastSegment(path).type = rt.fault.type
    /\ LastSegment(path).state = rt.fault.state

\* the candidate the loop of generateNextPaths has reached cannot be had or
\* cannot be filtered
CandidateThrows ==
    /\ pc = "running" /\ stack # <<>>
    /\ Top.idx <= Len(Candidates)
    /\ SegmentThrows(LastSegment(Top.path).state, Candidates[Top.idx])

\* the candidate is accepted and filterPath throws on the path made of it
NextPathThrows ==
    /\ pc = "running" /\ stack # <<>>
    /\ Top.idx <= Len(Candidates)
    /\ ~SegmentThrows(LastSegment(Top.path).state, Candidates[Top.idx])
    /\ FilterSegment(options.filterSegment, Candidates[Top.idx], Top.path)
    /\ PathThrows(NewPath(machine, Top.path \o <<Candidates[Top.idx]>>))

\* generatePaths: filterPath(pathToInitialState) throws; the error leaves
\* the generator, arrayFromAsyncGenerator and makePaths
GeneratePathsThrow ==
    /\ pc = "idle"
    /\ PathThrows(NewPath(machine, <<>>))
    /\ explored' = <<[path |-> NewPath(machine, <<>>), addr |-> <<>>, yielded |-> FALSE]>>
    /\ pc' = "failed"
    /\ outcome' = Rejected(<<rt.fault, <<>>>>)
    /\ UNCHANGED <<machine, options, stack, paths, rejected, result, run, firstResult, generators,
                   dedupVars, rt, tasks, log>>

\* a loop that catches the error of a candidate and goes on to the next one
StepThrowSwallowed ==
    /\ CandidateThrows
    /\ rejected' = rejected \cup {Append(Addr(Len(stack)), Top.idx)}
    /\ stack' = [stack EXCEPT ![Len(stack)].idx = @ + 1]
    /\ generators' = Pull
    /\ UNCHANGED <<machine, options, pc, paths, explored, result, run, firstResult,
                   dedupVars, execVars>>

\* generateNextPaths: the transition or filterSegment throws; every
\* suspended generator is left and makePaths rejects with the error
StepThrow ==
    /\ CandidateThrows
    /\ pc' = "failed"
    /\ stack' = <<>>
    /\ outcome' = Rejected(<<rt.fault, Append(Addr(Len(stack)), Top.idx)>>)
    /\ generators' = EndLoops(Pull)
    /\ UNCHANGED <<machine, options, paths, explored, rejected, result, run, firstResult,
                   dedupVars, rt, tasks, log>>

\* generateNextPaths: filterPath(nextPath) throws
StepPathThrow ==
    /\ NextPathThrows
    /\ explored' = Append(explored,
                          [path |-> NewPath(machine, Top.path \o <<Candidates[Top.idx]>>),
                           addr |-> Append(Addr(Len(stack)), Top.idx), yielded |-> FALSE])
    /\ pc' = "failed"
    /\ stack' = <<>>
    /\ outcome' = Rejected(<<rt.fault, Append(Addr(Len(stack)), Top.idx)>>)
    /\ generators' = EndLoops(Pull)
    /\ UNCHANGED <<machine, options, paths, rejected, result, run, firstResult,
                   dedupVars, rt, tasks, log>>

NextFail ==
    \/ ~PathThrows(NewPath(machine, <<>>)) /\ GeneratePaths
    \/ ~CandidateThrows /\ StepReject
    \/ ~CandidateThrows /\ ~NextPathThrows /\ StepLeaf
    \/ ~CandidateThrows /\ ~NextPathThrows /\ StepRecurse
    \/ Return
    \/ MakePathsReturn
    \/ GeneratePathsThrow
    \/ StepThrow
    \/ StepPathThrow

SpecFail == InitFail /\ [][NextFail]_vars

(***************************************************************************)
(* EventSource.generateEvents called on its own, the way the tests call    *)
(* it: [...eventSource.generateEvents(type)].                              *)
(***************************************************************************)
\* the events a source is registered with
EventPool == {Event("A", p) : p \in Payloads} \cup {Event("B", "none")}

SourcePool ==
    [Types -> {Unregistered} \cup {Registered(evs) : evs \in SeqsUpTo(EventPool, MaxEvents)}]

InitEvents ==
    /\ rt \in [source : SourcePool, type : Types]
    /\ result = <<>>
    /\ pc = "events"
    /\ machine = MakeMachine([next |-> <<>>, tA |-> "a"], [next |-> <<>>, tA |-> "b"], "dead", FALSE)
    /\ options = [eventSource |-> [t \in Types |-> Unregistered], maxLength |-> <<>>,
                  filterSegment |-> "default", filterPath |-> "default"]
    /\ stack = <<>>
    /\ paths = <<>>
    /\ explored = <<>>
    /\ rejected = {}
    /\ run = 1
    /\ firstResult = <<>>
    /\ generators = NoGenerators
    /\ dedupArg = <<>>
    /\ dedupIn = <<>>
    /\ dedupOut = <<>>
    /\ dedupTwice = <<>>
    /\ tasks = <<>>
    /\ log = <<>>
    /\ outcome = NoOutcome

\* generateEvents that falls back to { type } when the source yields nothing
GenerateEventsCallFallback ==
    /\ pc = "events"
    /\ result' = IF GenerateEvents(rt.source, rt.type) = <<>>
                 THEN <<Event(rt.type, "none")>>
                 ELSE GenerateEvents(rt.source, rt.type)
    /\ pc' = "generated"
    /\ UNCHANGED <<machine, options, stack, paths, explored, rejected, run, firstResult, generators,
                   dedupVars, execVars>>

\* [...eventSource.generateEvents(type)]
GenerateEventsCall ==
    /\ pc = "events"
    /\ result' = GenerateEvents(rt.source, rt.type)
    /\ pc' = "generated"
    /\ UNCHANGED <<machine, options, stack, paths, explored, rejected, run, firstResult, generators,
                   dedupVars, execVars>>

NextEvents == GenerateEventsCall

SpecEvents == InitEvents /\ [][NextEvents]_vars

(***************************************************************************)
(* EventSource.generateNextEvents called on its own, on a state of which   *)
(* only nextEvents is read: [...eventSource.generateNextEvents(state)].    *)
(***************************************************************************)
\* the lists of enabled types a state reports
NextEventLists == SeqsUpTo(Types, MaxNextEvents)

\* { nextEvents } as AnyState: every state value of the mock machine reports
\* the same list
MockState(nextEvents) == [next |-> [s \in States |-> nextEvents]]

InitNextEvents ==
    /\ rt \in [source : SourcePool, nextEvents : NextEventLists]
    /\ result = <<>>
    /\ pc = "nextEvents"
    /\ machine = MakeMachine([next |-> <<>>, tA |-> "a"], [next |-> <<>>, tA |-> "b"], "dead", FALSE)
    /\ options = [eventSource |-> [t \in Types |-> Unregistered], maxLength |-> <<>>,
                  filterSegment |-> "default", filterPath |-> "default"]
    /\ stack = <<>>
    /\ paths = <<>>
    /\ explored = <<>>
    /\ rejected = {}
    /\ run = 1
    /\ firstResult = <<>>
    /\ generators = NoGenerators
    /\ dedupArg = <<>>
    /\ dedupIn = <<>>
    /\ dedupOut = <<>>
    /\ dedupTwice = <<>>
    /\ tasks = <<>>
    /\ log = <<>>
    /\ outcome = NoOutcome

\* [...eventSource.generateNextEvents(state)]
GenerateNextEventsCall ==
    /\ pc = "nextEvents"
    /\ result' = GenerateNextEvents(rt.source, MockState(rt.nextEvents), "a")
    /\ pc' = "nextGenerated"
    /\ UNCHANGED <<machine, options, stack, paths, explored, rejected, run, firstResult, generators,
                   dedupVars, execVars>>

NextNextEvents == GenerateNextEventsCall

SpecNextEvents == InitNextEvents /\ [][NextNextEvents]_vars

(***************************************************************************)
(* The generators of EventSource.generateEvents, consumed one next() at a  *)
(* time.  The same events are registered for a type as an array, as a      *)
(* function returning the array and as a generator function; every         *)
(* generator object is an entry of tasks, and a generateEvents generator   *)
(* refers to the generator its for-of loop iterates by its index.          *)
(***************************************************************************)
\* the three forms of EventSourceArg
Representations == {"array", "function", "generator"}

\* the events registered for the type
RegisteredLists == {<<>>, <<Event("A", "p1")>>, <<Event("A", "p1"), Event("A", "p2")>>}

InitGenerators ==
    /\ rt \in [events : RegisteredLists]
    /\ tasks = <<>>
    /\ pc = "generators"
    /\ result = <<>>
    /\ machine = MakeMachine([next |-> <<>>, tA |-> "a"], [next |-> <<>>, tA |-> "b"], "dead", FALSE)
    /\ options = [eventSource |-> [t \in Types |-> Unregistered], maxLength |-> <<>>,
                  filterSegment |-> "default", filterPath |-> "default"]
    /\ stack = <<>>
    /\ paths = <<>>
    /\ explored = <<>>
    /\ rejected = {}
    /\ run = 1
    /\ firstResult = <<>>
    /\ generators = NoGenerators
    /\ dedupArg = <<>>
    /\ dedupIn = <<>>
    /\ dedupOut = <<>>
    /\ dedupTwice = <<>>
    /\ log = <<>>
    /\ outcome = NoOutcome

\* a generator object that has not run yet
NewGenerator(kind, rep) ==
    [kind |-> kind, rep |-> rep, inner |-> 0, pos |-> 0, out |-> <<>>, status |-> "new"]

\* the generators generateEvents has returned
EventGenerators == {g \in 1..Len(tasks) : tasks[g].kind = "generateEvents"}

\* the function getGenerator stored for the type, called: an array (the
\* registered one, or the one the registered function returns) is wrapped
\* by generatorFromArray, a generator the registered function returns is
\* handed on as it is
GetGenerator(rep) ==
    IF rep = "generator"
    THEN NewGenerator("source", rep)
    ELSE NewGenerator("generatorFromArray", rep)

\* eventSource.generateEvents(type): the generator is created, its body has
\* not started
GenerateEventsNew ==
    /\ pc = "generators"
    /\ Cardinality(EventGenerators) < MaxGenerators
    /\ \E rep \in Representations :
        tasks' = Append(tasks, NewGenerator("generateEvents", rep))
    /\ UNCHANGED <<genVars, dedupVars, rt, log, outcome>>

\* getGenerator calls source() once, when the EventSource is constructed, and
\* every generateEvents of the type iterates that one generator
StartedShared(g) ==
    IF tasks[g].status = "new"
    THEN IF \E h \in EventGenerators : tasks[h].rep = tasks[g].rep /\ tasks[h].inner # 0
         THEN [tasks EXCEPT ![g].inner =
                    tasks[CHOOSE h \in EventGenerators :
                              tasks[h].rep = tasks[g].rep /\ tasks[h].inner # 0].inner]
         ELSE [Append(tasks, GetGenerator(tasks[g].rep)) EXCEPT ![g].inner = Len(tasks) + 1]
    ELSE tasks

\* tasks after the body of generator g has reached its loop: the first
\* next() calls source(), which makes the generator the loop iterates
Started(g) ==
    IF tasks[g].status = "new"
    THEN [Append(tasks, GetGenerator(tasks[g].rep)) EXCEPT ![g].inner = Len(tasks) + 1]
    ELSE tasks

\* next() on a generateEvents generator whose loop has an event left: the
\* event is yielded to the consumer
GeneratorYield ==
    /\ pc = "generators"
    /\ \E g \in EventGenerators :
        /\ tasks[g].status \in {"new", "suspended"}
        /\ LET started == Started(g)
               inner == started[g].inner
               pos == started[inner].pos
           IN  /\ started[inner].status \in {"new", "suspended"}
               /\ pos < Len(rt.events)
               /\ tasks' = [started EXCEPT ![inner].pos = pos + 1,
                                           ![inner].status = "suspended",
                                           ![g].out = Append(@, rt.events[pos + 1]),
                                           ![g].status = "suspended"]
    /\ UNCHANGED <<genVars, dedupVars, rt, log, outcome>>

\* next() on a generateEvents generator whose loop has nothing left: both
\* generators are done
GeneratorDone ==
    /\ pc = "generators"
    /\ \E g \in EventGenerators :
        /\ tasks[g].status \in {"new", "suspended"}
        /\ LET started == Started(g)
               inner == started[g].inner
           IN  /\ \/ started[inner].pos >= Len(rt.events)
                  \/ started[inner].status \in {"done", "closed"}
               /\ tasks' = [started EXCEPT ![inner].status =
                                               IF @ = "closed" THEN "closed" ELSE "done",
                                           ![g].status = "done"]
    /\ UNCHANGED <<genVars, dedupVars, rt, log, outcome>>

\* the consumer leaves its for-of loop early: return() closes the
\* generateEvents generator and, through its loop, the generator it iterates
GeneratorReturn ==
    /\ pc = "generators"
    /\ \E g \in EventGenerators :
        /\ tasks[g].status = "suspended"
        /\ tasks' = [tasks EXCEPT ![tasks[g].inner].status = "closed",
                                  ![g].status = "closed"]
    /\ UNCHANGED <<genVars, dedupVars, rt, log, outcome>>

NextGenerators ==
    \/ GenerateEventsNew
    \/ GeneratorYield
    \/ GeneratorDone
    \/ GeneratorReturn

SpecGenerators == InitGenerators /\ [][NextGenerators]_vars

(***************************************************************************)
(* Segment.generateNextSegments, Segment.isFinal and Path.isFinal called   *)
(* on their own, the way the tests call them, on the last segment of a     *)
(* path and on the path.                                                   *)
(***************************************************************************)
\* new Segment(machine, state) for the states a transition can produce
SegmentPool ==
    { Segment(Event(t, p), s) : t \in Types, p \in Payloads, s \in States }

\* new Path(machine) and new Path(machine, [initialSegment, segment])
SegmentPathPool ==
    { <<Segment(Event(InitType, "none"), "a")>> \o tail : tail \in SeqsUpTo(SegmentPool, 1) }

InitSegment ==
    /\ machine \in Machines
    /\ options \in { o \in OptionSets(machine) :
                        /\ o.maxLength = <<>>
                        /\ o.filterSegment = "default"
                        /\ o.filterPath = "default" }
    /\ rt \in [path : SegmentPathPool]
    /\ pc = "segment"
    /\ result = <<>>
    /\ stack = <<>>
    /\ paths = <<>>
    /\ explored = <<>>
    /\ rejected = {}
    /\ run = 1
    /\ firstResult = <<>>
    /\ generators = NoGenerators
    /\ dedupArg = <<>>
    /\ dedupIn = <<>>
    /\ dedupOut = <<>>
    /\ dedupTwice = <<>>
    /\ tasks = <<>>
    /\ log = <<>>
    /\ outcome = NoOutcome

\* generateNextSegments without the test of fromState.done
GenerateNextSegmentsCallDone ==
    /\ pc = "segment"
    /\ result' = GenerateNextSegments([machine EXCEPT !.done = [s \in States |-> FALSE]],
                                      options.eventSource, LastSegment(rt.path))
    /\ pc' = "nextSegments"
    /\ UNCHANGED <<machine, options, stack, paths, explored, rejected, run, firstResult, generators,
                   dedupVars, execVars>>

\* arrayFromAsyncGenerator(segment.generateNextSegments(eventSource))
GenerateNextSegmentsCall ==
    /\ pc = "segment"
    /\ result' = GenerateNextSegments(machine, options.eventSource, LastSegment(rt.path))
    /\ pc' = "nextSegments"
    /\ UNCHANGED <<machine, options, stack, paths, explored, rejected, run, firstResult, generators,
                   dedupVars, execVars>>

\* isFinal that looks at state.done alone
IsFinalCallDoneOnly ==
    /\ pc = "segment"
    /\ result' = <<machine.done[LastSegment(rt.path).state],
                   machine.done[LastSegment(rt.path).state]>>
    /\ pc' = "isFinal"
    /\ UNCHANGED <<machine, options, stack, paths, explored, rejected, run, firstResult, generators,
                   dedupVars, execVars>>

\* path.lastSegment.isFinal() and path.isFinal()
IsFinalCall ==
    /\ pc = "segment"
    /\ result' = <<SegIsFinal(machine, LastSegment(rt.path)), IsFinal(machine, rt.path)>>
    /\ pc' = "isFinal"
    /\ UNCHANGED <<machine, options, stack, paths, explored, rejected, run, firstResult, generators,
                   dedupVars, execVars>>

NextSegment ==
    \/ GenerateNextSegmentsCall
    \/ IsFinalCall

SpecSegment == InitSegment /\ [][NextSegment]_vars

(***************************************************************************)
(* The comparisons of Segment called on two segments: matches, isSimilar,  *)
(* hasSameTarget and hasSimilarEvent, each in both directions.             *)
(***************************************************************************)
\* the payloads of the compared events: those of Payloads, and one more
\* written twice with its two fields in either order
ComparedPayloads == Payloads \cup {"p12", "p21"}

ComparedSegments ==
    { Segment(Event(t, p), s) : t \in Types, p \in ComparedPayloads, s \in {"a", "b"} }

InitCompare ==
    /\ rt \in [segment : ComparedSegments, other : ComparedSegments]
    /\ pc = "compare"
    /\ result = <<>>
    /\ machine = MakeMachine([next |-> <<>>, tA |-> "a"], [next |-> <<>>, tA |-> "b"], "dead", FALSE)
    /\ options = [eventSource |-> [t \in Types |-> Unregistered], maxLength |-> <<>>,
                  filterSegment |-> "default", filterPath |-> "default"]
    /\ stack = <<>>
    /\ paths = <<>>
    /\ explored = <<>>
    /\ rejected = {}
    /\ run = 1
    /\ firstResult = <<>>
    /\ generators = NoGenerators
    /\ dedupArg = <<>>
    /\ dedupIn = <<>>
    /\ dedupOut = <<>>
    /\ dedupTwice = <<>>
    /\ tasks = <<>>
    /\ log = <<>>
    /\ outcome = NoOutcome

\* the four comparisons of one segment with another
Comparisons(segment, other) ==
    [matches |-> SegMatches(segment, other),
     isSimilar |-> IsSimilar(segment, other),
     hasSameTarget |-> HasSameTarget(segment, other),
     hasSimilarEvent |-> HasSimilarEvent(segment, other)]

\* segment.matches(other), segment.isSimilar(other), ... and the same calls
\* on other with segment, and on segment with itself
CompareCall ==
    /\ pc = "compare"
    /\ result' = <<Comparisons(rt.segment, rt.other),
                   Comparisons(rt.other, rt.segment),
                   Comparisons(rt.segment, rt.segment)>>
    /\ pc' = "compared"
    /\ UNCHANGED <<machine, options, stack, paths, explored, rejected, run, firstResult, generators,
                   dedupVars, execVars>>

NextCompare == CompareCall

SpecCompare == InitCompare /\ [][NextCompare]_vars

(***************************************************************************)
(* The cache decorator.  A class has one getter decorated with @cache; the *)
(* getter computes a value that may differ from call to call (the test     *)
(* uses Math.random()).  rt is the module's propertyCache: for every       *)
(* instance, whether the WeakMap has a Map for it and what that Map holds  *)
(* under the property key.  log is the sequence of the reads made.         *)
(***************************************************************************)
Instances == {1, 2}

\* the values the getter computes, and which of them a condition takes as true
JsValues == {"''", "0", "false", "undefined", "'x'", "1"}
Truthy(value) == value \in {"'x'", "1"}

\* an instance propertyCache knows nothing of
NoCache == [has |-> FALSE, set |-> FALSE, value |-> "undefined"]

\* cache.get(propertyKey) on the Map of an instance
CacheGet(cache) == IF cache.set THEN cache.value ELSE "undefined"

InitCache ==
    /\ rt = [i \in Instances |-> NoCache]
    /\ log = <<>>
    /\ pc = "cache"
    /\ result = <<>>
    /\ machine = MakeMachine([next |-> <<>>, tA |-> "a"], [next |-> <<>>, tA |-> "b"], "dead", FALSE)
    /\ options = [eventSource |-> [t \in Types |-> Unregistered], maxLength |-> <<>>,
                  filterSegment |-> "default", filterPath |-> "default"]
    /\ stack = <<>>
    /\ paths = <<>>
    /\ explored = <<>>
    /\ rejected = {}
    /\ run = 1
    /\ firstResult = <<>>
    /\ generators = NoGenerators
    /\ dedupArg = <<>>
    /\ dedupIn = <<>>
    /\ dedupOut = <<>>
    /\ dedupTwice = <<>>
    /\ tasks = <<>>
    /\ outcome = NoOutcome

\* a read of the property for which !cache.get(propertyKey) holds: the
\* original getter runs, its value is stored and returned
CacheMiss ==
    /\ pc = "cache"
    /\ Len(log) < MaxReads
    /\ \E i \in Instances, value \in JsValues :
        /\ ~Truthy(CacheGet(rt[i]))
        /\ rt' = [rt EXCEPT ![i] = [has |-> TRUE, set |-> TRUE, value |-> value]]
        /\ log' = Append(log, [instance |-> i, computed |-> TRUE, value |-> value])
    /\ UNCHANGED <<genVars, dedupVars, tasks, outcome>>

\* a read of the property for which cache.get(propertyKey) is taken as
\* true: the stored value is returned
CacheHit ==
    /\ pc = "cache"
    /\ Len(log) < MaxReads
    /\ \E i \in Instances :
        /\ Truthy(CacheGet(rt[i]))
        /\ log' = Append(log, [instance |-> i, computed |-> FALSE, value |-> CacheGet(rt[i])])
    /\ UNCHANGED <<genVars, dedupVars, rt, tasks, outcome>>

NextCache == CacheMiss \/ CacheHit

SpecCache == InitCache /\ [][NextCache]_vars

(***************************************************************************)
(* Path.includes called on a pair of paths.                               *)
(***************************************************************************)

\* the segments of the compared paths: one event type into three states
IncludesSegPool ==
    { Segment(Event("A", "none"), "a"),
      Segment(Event("A", "none"), "ab"),
      Segment(Event("A", "none"), "b") }

\* paths from the initial state "a" with up to MaxSegs further segments
IncludesPathPool ==
    { <<Segment(Event(InitType, "none"), "a")>> \o tail :
        tail \in SeqsUpTo(IncludesSegPool, MaxSegs) }

InitIncludes ==
    /\ rt \in [path : IncludesPathPool, other : IncludesPathPool]
    /\ pc = "includes"
    /\ result = <<>>
    /\ machine = MakeMachine([next |-> <<>>, tA |-> "a"], [next |-> <<>>, tA |-> "b"], "dead", FALSE)
    /\ options = [eventSource |-> [t \in Types |-> Unregistered], maxLength |-> <<>>,
                  filterSegment |-> "default", filterPath |-> "default"]
    /\ stack = <<>>
    /\ paths = <<>>
    /\ explored = <<>>
    /\ rejected = {}
    /\ run = 1
    /\ firstResult = <<>>
    /\ generators = NoGenerators
    /\ dedupArg = <<>>
    /\ dedupIn = <<>>
    /\ dedupOut = <<>>
    /\ dedupTwice = <<>>
    /\ tasks = <<>>
    /\ log = <<>>
    /\ outcome = NoOutcome

\* path.includes(other)
IncludesCall ==
    /\ pc = "includes"
    /\ result' = <<Includes(rt.path, rt.other)>>
    /\ pc' = "included"
    /\ UNCHANGED <<machine, options, stack, paths, explored, rejected, run, firstResult, generators,
                   dedupVars, execVars>>

NextIncludes == IncludesCall

SpecIncludes == InitIncludes /\ [][NextIncludes]_vars

(***************************************************************************)
(* new EventExecutor(...) and new StateExecutor(...), and a transition    *)
(* handed to the executor that was built.                                  *)
(***************************************************************************)

\* the two classes; the StateExecutor constructor exists with and without
\* a default value of its parameter
ExecutorClasses ==
    { [kind |-> "event", default |-> FALSE],
      [kind |-> "state", default |-> FALSE],
      [kind |-> "state", default |-> TRUE] }

\* the argument lists of a constructor call: no argument, or a registry
ConstructorArgs(class) ==
    {<<>>} \cup { <<r>> : r \in Registries(IF class.kind = "event" THEN {"A"} ELSE {"p", "p.c"}) }

\* the value of the parameter execs: the argument, the default {} when there
\* is one and no argument was given, and otherwise undefined, written <<>>
ExecsParameter(class, args) ==
    IF args # <<>> THEN args
    ELSE IF class.default THEN <<[keys |-> {}, throws |-> {}]>> ELSE <<>>

InitConstruct ==
    /\ \E class \in ExecutorClasses :
        rt \in [class : {class}, args : ConstructorArgs(class), state : ExecStates,
                executors : {<<>>}]
    /\ pc = "construct"
    /\ result = <<>>
    /\ machine = MakeMachine([next |-> <<>>, tA |-> "a"], [next |-> <<>>, tA |-> "b"], "dead", FALSE)
    /\ options = [eventSource |-> [t \in Types |-> Unregistered], maxLength |-> <<>>,
                  filterSegment |-> "default", filterPath |-> "default"]
    /\ stack = <<>>
    /\ paths = <<>>
    /\ explored = <<>>
    /\ rejected = {}
    /\ run = 1
    /\ firstResult = <<>>
    /\ generators = NoGenerators
    /\ dedupArg = <<>>
    /\ dedupIn = <<>>
    /\ dedupOut = <<>>
    /\ dedupTwice = <<>>
    /\ tasks = <<>>
    /\ log = <<>>
    /\ outcome = NoOutcome

\* the constructor returns: this.execs = new Map(Object.entries(execs))
ConstructorReturn ==
    /\ pc = "construct"
    /\ ExecsParameter(rt.class, rt.args) # <<>>
    /\ LET execs == ExecsParameter(rt.class, rt.args)[1]
       IN  rt' = [rt EXCEPT !.executors =
                    <<IF rt.class.kind = "event" THEN EventExecutor(execs)
                      ELSE StateExecutor(execs)>>]
    /\ pc' = "exec"
    /\ UNCHANGED <<machine, options, stack, paths, explored, rejected, result, run,
                   firstResult, generators, dedupVars, tasks, log, outcome>>

\* Object.entries(undefined) throws a TypeError: no executor is built
ConstructorThrow ==
    /\ pc = "construct"
    /\ ExecsParameter(rt.class, rt.args) = <<>>
    /\ result' = <<"TypeError">>
    /\ pc' = "constructFailed"
    /\ UNCHANGED <<machine, options, stack, paths, explored, rejected, run, firstResult, generators,
                   dedupVars, execVars>>

NextConstruct ==
    \/ ConstructorReturn
    \/ ConstructorThrow
    \/ OnTransitionCall
    \/ ExecutorExec
    \/ ExecLookup
    \/ ExecReturn
    \/ CallbackReturn
    \/ CallbackThrow
    \/ OnTransitionReturn

SpecConstruct == InitConstruct /\ [][NextConstruct]_vars

(***************************************************************************)
(* crossMerge and crossMergeGenerator.  An object is the sequence of its  *)
(* fields in insertion order, the order JSON.stringify writes them in.    *)
(***************************************************************************)

Field(key, value) == [key |-> key, value |-> value]

KeysOf(item) == { item[i].key : i \in 1..Len(item) }


\* { ...itemLeft, ...itemRight }: the fields of itemLeft in their order, each
\* with the value itemRight gives it when itemRight has the key, followed by
\* the fields only itemRight has
ShallowMerge(itemLeft, itemRight) ==
    [i \in 1..Len(itemLeft) |->
        IF itemLeft[i].key \in KeysOf(itemRight)
        THEN Field(itemLeft[i].key,
                   itemRight[CHOOSE j \in 1..Len(itemRight) : itemRight[j].key = itemLeft[i].key].value)
        ELSE itemLeft[i]]
    \o SelectSeq(itemRight, LAMBDA f : f.key \notin KeysOf(itemLeft))

\* JSON.parse(JSON.stringify(item)): a field whose value is undefined is not
\* written, the other fields come back in the order they were written in
JsonRoundTrip(item) == SelectSeq(item, LAMBDA f : f.value # "undefined")

\* Array.from(new Set(strings)): the first occurrence of every string, in
\* insertion order
RECURSIVE SetOrder(_)
SetOrder(items) ==
    IF items = <<>> THEN <<>>
    ELSE LET rest == SetOrder(SubSeq(items, 1, Len(items) - 1))
             last == items[Len(items)]
         IN  IF \E i \in 1..Len(rest) : rest[i] = last THEN rest ELSE Append(rest, last)

\* for (const itemRight of itemsRight) yield { ...itemLeft, ...itemRight }
MergeOver(itemLeft, itemsRight) ==
    [j \in 1..Len(itemsRight) |-> ShallowMerge(itemLeft, itemsRight[j])]

\* crossMergeGenerator drained: for (const itemLeft of itemsLeft) the inner loop
RECURSIVE CrossMergeGenerator(_, _)
CrossMergeGenerator(itemsLeft, itemsRight) ==
    IF itemsLeft = <<>> THEN <<>>
    ELSE MergeOver(itemsLeft[1], itemsRight) \o CrossMergeGenerator(Tail(itemsLeft), itemsRight)

\* crossMerge of lib/util/cross-merge: Array.from(crossMergeGenerator(...))
CrossMergeFromGenerator(itemsLeft, itemsRight) ==
    CrossMergeGenerator(itemsLeft, itemsRight)

\* crossMerge of lib/cross-merge: the same nested loops pushing every item,
\* then the Set of the JSON strings of the items, parsed again
CrossMergeViaSet(itemsLeft, itemsRight) ==
    LET pushed == CrossMergeGenerator(itemsLeft, itemsRight)
    IN  SetOrder([i \in 1..Len(pushed) |-> JsonRoundTrip(pushed[i])])

\* the two modules that export a crossMerge
CrossMergeModules == {"lib/cross-merge", "lib/util/cross-merge"}

CrossMerge(module, itemsLeft, itemsRight) ==
    IF module = "lib/cross-merge" THEN CrossMergeViaSet(itemsLeft, itemsRight)
    ELSE CrossMergeFromGenerator(itemsLeft, itemsRight)

LeftItems ==
    { <<Field("a", "1")>>, <<Field("a", "2")>>, <<Field("b", "1")>> }

RightItems ==
    { <<Field("b", "1")>>, <<Field("a", "2")>>, <<Field("b", "undefined")>> }

InitMerge ==
    /\ rt \in [module : CrossMergeModules,
               itemsLeft : SeqsUpTo(LeftItems, MaxItems),
               itemsRight : SeqsUpTo(RightItems, MaxItems)]
    /\ pc = "merge"
    /\ result = <<>>
    /\ machine = MakeMachine([next |-> <<>>, tA |-> "a"], [next |-> <<>>, tA |-> "b"], "dead", FALSE)
    /\ options = [eventSource |-> [t \in Types |-> Unregistered], maxLength |-> <<>>,
                  filterSegment |-> "default", filterPath |-> "default"]
    /\ stack = <<>>
    /\ paths = <<>>
    /\ explored = <<>>
    /\ rejected = {}
    /\ run = 1
    /\ firstResult = <<>>
    /\ generators = NoGenerators
    /\ dedupArg = <<>>
    /\ dedupIn = <<>>
    /\ dedupOut = <<>>
    /\ dedupTwice = <<>>
    /\ tasks = <<>>
    /\ log = <<>>
    /\ outcome = NoOutcome

\* crossMerge(itemsLeft, itemsRight) and
\* Array.from(crossMergeGenerator(itemsLeft, itemsRight))
CrossMergeCall ==
    /\ pc = "merge"
    /\ result' = <<CrossMerge(rt.module, rt.itemsLeft, rt.itemsRight),
                   CrossMergeGenerator(rt.itemsLeft, rt.itemsRight)>>
    /\ pc' = "merged"
    /\ UNCHANGED <<machine, options, stack, paths, explored, rejected, run, firstResult, generators,
                   dedupVars, execVars>>

NextMerge == CrossMergeCall

SpecMerge == InitMerge /\ [][NextMerge]_vars

(***************************************************************************)
(* Properties.                                                             *)
(***************************************************************************)
ExploredPaths == {explored[i].path : i \in 1..Len(explored)}

\* a state that is done or has no enabled event
FinalState(s) == machine.done[s] \/ machine.next[s] = <<>>

\* the segments of p that carry event type t and reach state s
Occurrences(p, t, s) == {k \in 1..Len(p) : p[k].type = t /\ p[k].state = s}

\* a is before b in depth-first pre-order: a path before its extensions, a
\* lower candidate index before a higher one
LexBefore(a, b) ==
    \/ Len(a) < Len(b) /\ SubSeq(b, 1, Len(a)) = a
    \/ \E k \in 1..Len(a) :
        /\ k <= Len(b)
        /\ SubSeq(a, 1, k - 1) = SubSeq(b, 1, k - 1)
        /\ a[k] < b[k]

\* the path at an address: candidate addr[k] of the event source at level k
RECURSIVE PathAt(_)
PathAt(addr) ==
    IF addr = <<>> THEN <<InitialSegment(machine)>>
    ELSE LET parent == PathAt(SubSeq(addr, 1, Len(addr) - 1))
         IN  Append(parent,
                    GenerateNextSegments(machine, options.eventSource,
                                         LastSegment(parent))[addr[Len(addr)]])

GeneratorExhausted == (pc = "running" /\ stack = <<>>) \/ pc = "done"

\* C1: no yielded path has more than maxLength segments, for every maxLength.
C1_Bounding ==
    \A i \in 1..Len(paths) : Len(paths[i]) <= MaxLength(options)

\* C2: under the default segment filter every pair (event type, target state)
\* occurs in at most two segments of every path explored or yielded, whatever
\* the payloads.
C2_CycleGuard ==
    options.filterSegment = "default" =>
        \A p \in ExploredPaths \cup Range(paths) :
            \A t \in Types \cup {InitType}, s \in States :
                Cardinality(Occurrences(p, t, s)) <= 2

C2_Witness ==
    /\ options.filterSegment = "default"
    /\ rejected # {}
    /\ \E p \in Range(paths) : \E i, j \in 1..Len(p) :
        /\ i < j
        /\ p[i].type = p[j].type /\ p[i].state = p[j].state
        /\ p[i].payload # p[j].payload

\* C3: with the default filters and the default maxLength, makePaths
\* eventually completes.
C3_Termination ==
    (options.filterSegment = "default" /\ options.filterPath = "default"
        /\ options.maxLength = <<>>) ~> (pc = "done")

C3_Witness ==
    /\ pc = "done"
    /\ options.filterSegment = "default" /\ options.filterPath = "default"
    /\ options.maxLength = <<>>
    /\ rejected # {}
    /\ \E p \in ExploredPaths : Len(p) > MaxMaxLength

\* C4: two runs of generation on the same machine, event source and options
\* yield the same paths in the same order.
C4_Determinism ==
    run = 2 =>
        /\ IsPrefix(YieldedPaths(explored), firstResult)
        /\ GeneratorExhausted => YieldedPaths(explored) = firstResult

C4_Witness ==
    /\ run = 2 /\ pc = "done"
    /\ Len(firstResult) >= 3
    /\ \E p \in Range(firstResult) : \E k \in 1..Len(p) : p[k].payload # "none"
    /\ \E k \in 1..(Len(generators.ended) - Len(explored)) :
        \E t \in Types : Len(generators.ended[k][t].out) > 1
    /\ \E t \in Types : Len(generators.ended[Len(generators.ended)][t].out) > 1

\* C5: every generated path is non-empty, starts with the initialization
\* segment at the machine's initial state, and every later segment holds the
\* transition of its predecessor's state on an event enabled there.
C5_RealWalk ==
    \A p \in ExploredPaths \cup Range(paths) \cup Range(result) :
        /\ Len(p) >= 1
        /\ p[1] = [type |-> InitType, payload |-> "none", state |-> machine.initial]
        /\ \A i \in 2..Len(p) :
            /\ p[i].type \in Range(machine.next[p[i - 1].state])
            /\ p[i].state = Transition(machine, p[i - 1].state, SegEvent(p[i]))

C5_Witness ==
    /\ pc = "done"
    /\ machine.guarded
    /\ \E p \in Range(result) :
        /\ Len(p) >= 4
        /\ \E i \in 2..Len(p) : p[i].state = p[i - 1].state
        /\ \E i \in 2..Len(p) : p[i].state # p[i - 1].state

\* C6: with the default path filter every returned path ends in a state that
\* is done or has no enabled event, also when paths were cut off at maxLength
\* or blocked by the cycle guard.
C6_OnlyFinalPaths ==
    options.filterPath = "default" =>
        \A p \in Range(paths) \cup Range(result) :
            Len(p) > 0 /\ FinalState(p[Len(p)].state)

C6_Witness ==
    /\ pc = "done"
    /\ options.filterPath = "default" /\ options.filterSegment = "default"
    /\ rejected # {}
    /\ \E i \in 1..Len(explored) :
        /\ Len(explored[i].path) = MaxLength(options)
        /\ ~FinalState(LastSegment(explored[i].path).state)
        /\ ~explored[i].yielded
    /\ Len(result) >= 1

\* C7: paths are produced depth-first in pre-order: candidates are taken in
\* the order the event source produces them, a path comes before its
\* extensions, and the extensions of a candidate before those of the next.
C7_DepthFirstPreOrder ==
    /\ \A i, j \in 1..Len(explored) :
        i < j => LexBefore(explored[i].addr, explored[j].addr)
    /\ \A i \in 1..Len(explored) : explored[i].path = PathAt(explored[i].addr)
    /\ pc = "running" => paths = YieldedPaths(explored)

C7_Witness ==
    /\ pc = "running"
    /\ \E i, j, k \in 1..Len(explored) :
        /\ i < j /\ j < k
        /\ explored[i].yielded /\ explored[j].yielded /\ explored[k].yielded
        /\ explored[i].addr = <<1>>
        /\ explored[j].addr = <<1, 2>>
        /\ explored[k].addr = <<2>>
        /\ explored[k].path # explored[i].path

\* C8: a candidate filterSegment rejects gives no path and no extension, its
\* siblings are still processed; a path filterPath rejects is not yielded
\* but is still extended.
C8_FilterSemantics ==
    /\ \A p \in ExploredPaths : \A k \in 2..Len(p) :
        FilterSegment(options.filterSegment, p[k], SubSeq(p, 1, k - 1))
    /\ \A r \in rejected : \A i \in 1..Len(explored) : ~IsPrefix(r, explored[i].addr)
    /\ \A p \in Range(paths) : FilterPath(options.filterPath, machine, p)
    /\ \A i \in 1..Len(explored) :
        ~FilterPath(options.filterPath, machine, explored[i].path) =>
            explored[i].path \notin Range(paths)
    /\ GeneratorExhausted =>
        \A i \in 1..Len(explored) :
            LET p == explored[i].path
                cands == GenerateNextEvents(options.eventSource, machine, LastSegment(p).state)
            IN  (Len(p) = 1 \/ (~FinalState(LastSegment(p).state) /\ Len(p) < MaxLength(options))) =>
                    \A k \in 1..(IF machine.done[LastSegment(p).state] THEN 0 ELSE Len(cands)) :
                        \/ Append(explored[i].addr, k) \in rejected
                        \/ \E j \in 1..Len(explored) :
                            explored[j].addr = Append(explored[i].addr, k)

C8_Witness ==
    /\ pc = "done"
    /\ options.filterSegment = "noRevisit" /\ options.filterPath = "default"
    /\ \E r \in rejected : \E i \in 1..Len(explored) :
        /\ Len(explored[i].addr) = Len(r)
        /\ SubSeq(explored[i].addr, 1, Len(r) - 1) = SubSeq(r, 1, Len(r) - 1)
        /\ explored[i].addr[Len(r)] > r[Len(r)]
    /\ \E i, j \in 1..Len(explored) :
        /\ ~explored[i].yielded /\ Len(explored[i].addr) >= 1
        /\ explored[j].yielded
        /\ LexBefore(explored[i].addr, explored[j].addr)
        /\ IsPrefix(explored[i].addr, explored[j].addr)

NoContainedPath(ps) ==
    \A i, j \in 1..Len(ps) :
        i # j => ~StrIncludes(Description(ps[j]), Description(ps[i]))

\* C9: Path.deduplicate applied twice gives what it gives applied once, and
\* its output holds no path whose description is a substring of another
\* output path's description.
C9_DedupIdempotent ==
    pc = "dedupedTwice" =>
        /\ dedupTwice = dedupOut
        /\ NoContainedPath(dedupOut)

UniqueLongest(ps, i) == \A j \in 1..Len(ps) : j # i => Len(ps[j]) < Len(ps[i])

\* C10: Path.deduplicate keeps the unique longest input path, and keeps
\* exactly the input paths when no input description is contained in another.
C10_DedupKeeps ==
    pc \in {"deduped", "dedupedTwice"} =>
        /\ \A i \in 1..Len(dedupArg) :
            UniqueLongest(dedupArg, i) => dedupArg[i] \in Range(dedupOut)
        /\ NoContainedPath(dedupArg) =>
            /\ Range(dedupOut) = Range(dedupArg)
            /\ Len(dedupOut) = Len(dedupArg)

C10_Witness ==
    /\ pc = "deduped"
    /\ Len(dedupArg) >= 2
    /\ NoContainedPath(dedupArg)
    /\ \E i \in 1..Len(dedupArg) : UniqueLongest(dedupArg, i)
    /\ dedupOut # dedupArg

\* each description contains the description of the path before it
DescriptionChain(ps) ==
    \A i \in 1..(Len(ps) - 1) : StrIncludes(Description(ps[i + 1]), Description(ps[i]))

\* C11: Path.deduplicate of a list in which each path's description contains
\* the description of the path before it returns exactly one path, the
\* longest of the list; and no output path's description is contained in
\* the description of an input path with more segments.
C11_DedupRemovesRedundant ==
    pc \in {"deduped", "dedupedTwice"} =>
        /\ (Len(dedupArg) >= 1 /\ DescriptionChain(dedupArg)) =>
            dedupOut = <<dedupArg[Len(dedupArg)]>>
        /\ \A k \in 1..Len(dedupOut) : \A i \in 1..Len(dedupArg) :
            Len(dedupArg[i]) > Len(dedupOut[k]) =>
                ~StrIncludes(Description(dedupArg[i]), Description(dedupOut[k]))

\* the chain of two paths of equal segment count on which C11 fails: the
\* description of the first is contained in the description of the second
\* and Path.deduplicate returns both
C11_EqualLengthChain ==
    /\ pc = "deduped"
    /\ dedupArg = << <<Segment(Event(InitType, "none"), "a"), Segment(Event("A", "none"), "a")>>,
                     <<Segment(Event(InitType, "none"), "a"), Segment(Event("A", "none"), "ab")>> >>
    /\ DescriptionChain(dedupArg)
    /\ Len(dedupOut) = 2

\* the ways to read the output as a selection of input positions
Selections(out, arg) ==
    {f \in [1..Len(out) -> 1..Len(arg)] :
        /\ \A k \in 1..Len(out) : out[k] = arg[f[k]]
        /\ \A k, l \in 1..Len(out) : k # l => f[k] # f[l]}

ShortestFirst(out) ==
    \A k, l \in 1..Len(out) : k < l => Len(out[k]) <= Len(out[l])

\* C12 as stated: the output of Path.deduplicate is ordered shortest-first
\* and kept paths of equal segment count stand in their input order.
C12_StableTies ==
    pc \in {"deduped", "dedupedTwice"} =>
        /\ ShortestFirst(dedupOut)
        /\ \E f \in Selections(dedupOut, dedupArg) :
            \A k, l \in 1..Len(dedupOut) :
                (k < l /\ Len(dedupOut[k]) = Len(dedupOut[l])) => f[k] < f[l]

\* C12 amended: the output of Path.deduplicate is ordered shortest-first
\* and kept paths of equal segment count stand in the reverse of their
\* input order.
C12_ReversedTies ==
    pc \in {"deduped", "dedupedTwice"} =>
        /\ ShortestFirst(dedupOut)
        /\ \E f \in Selections(dedupOut, dedupArg) :
            \A k, l \in 1..Len(dedupOut) :
                (k < l /\ Len(dedupOut[k]) = Len(dedupOut[l])) => f[k] > f[l]

C12_Witness ==
    /\ pc = "deduped"
    /\ Len(dedupOut) = 3
    /\ Len(dedupOut[1]) < Len(dedupOut[2])
    /\ Len(dedupOut[2]) = Len(dedupOut[3])
    /\ dedupOut[2] # dedupOut[3]
    /\ dedupArg[1] = dedupOut[3]

IsExecCall(entry) == entry.op = "exec"

\* C15: the callback of withExecutors calls the exec of every executor once
\* with the state it was given, in registration order, each after the exec
\* before it has completed; a failing exec ends the loop and rejects the
\* promise the caller holds.
C15_WithExecutors ==
    pc = "exec" =>
        LET calls == SelectSeq(log, IsExecCall)
        IN  /\ \A i \in 1..Len(calls) : calls[i].k = i /\ calls[i].state = rt.state
            /\ \A i \in 1..Len(log) :
                (log[i].op = "exec" /\ log[i].k > 1) =>
                    \E h \in 1..(i - 1) :
                        log[h].op = "execEnd" /\ log[h].k = log[i].k - 1 /\ log[h].ok
            /\ outcome = Resolved => Len(calls) = Len(rt.executors)
            /\ \A i \in 1..Len(log) :
                (log[i].op = "execEnd" /\ ~log[i].ok) =>
                    /\ i = Len(log)
                    /\ outcome.status = "rejected" /\ outcome.error[1] = log[i].k
            /\ outcome.status = "rejected" =>
                (log # <<>> /\ log[Len(log)].op = "execEnd" /\ ~log[Len(log)].ok)

C15_Witness ==
    /\ pc = "exec"
    /\ Len(rt.executors) = 3
    /\ outcome.status = "rejected" /\ outcome.error[1] = 2
    /\ Len(SelectSeq(log, IsExecCall)) = 2

\* the callbacks executor k has called, in order
CallbacksOf(k) ==
    LET IsCallbackOfK(entry) == entry.op = "callback" /\ entry.k = k
    IN  SelectSeq(log, IsCallbackOfK)

\* C16: an EventExecutor.exec(state) that has completed has called the
\* callback registered under state.event.type once, with (event, state),
\* and has called nothing when no callback is registered under that type.
C16_EventExecutorDispatch ==
    pc = "exec" =>
        \A i \in 1..Len(log) :
            (log[i].op = "execEnd" /\ rt.executors[log[i].k].kind = "event") =>
                IF rt.state.event.type \in rt.executors[log[i].k].execs.keys
                THEN /\ Len(CallbacksOf(log[i].k)) = 1
                     /\ CallbacksOf(log[i].k)[1].key = rt.state.event.type
                     /\ CallbacksOf(log[i].k)[1].args = <<rt.state.event, rt.state>>
                ELSE CallbacksOf(log[i].k) = <<>>

\* the registered state strings of a state, in the order of toStrings()
RegisteredStrings(execs, state) ==
    LET IsRegistered(str) == str \in execs.keys
    IN  SelectSeq(state.strings, IsRegistered)

\* C17: a StateExecutor.exec(state) that has completed has called the
\* callbacks registered under the strings of state.toStrings(), in that
\* order, each once with the state and each after the one before it has
\* completed; a string without a callback gives no call and no error.
C17_StateExecutorDispatch ==
    pc = "exec" =>
        /\ \A i \in 1..Len(log) :
            (log[i].op = "execEnd" /\ log[i].ok /\ rt.executors[log[i].k].kind = "state") =>
                LET called == CallbacksOf(log[i].k)
                    due == RegisteredStrings(rt.executors[log[i].k].execs, rt.state)
                IN  /\ Len(called) = Len(due)
                    /\ \A c \in 1..Len(called) :
                        called[c].key = due[c] /\ called[c].args = <<rt.state>>
        /\ \A i \in 1..Len(log) :
            (log[i].op = "callback" /\ rt.executors[log[i].k].kind = "state") =>
                /\ log[i].key \in Range(rt.state.strings)
                /\ \A h \in 1..(i - 1) :
                    (log[h].op = "callback" /\ log[h].k = log[i].k) =>
                        \E e \in (h + 1)..(i - 1) :
                            /\ log[e].op = "callbackEnd" /\ log[e].k = log[h].k
                            /\ log[e].key = log[h].key /\ log[e].ok
        /\ \A i \in 1..Len(log) :
            (log[i].op = "execEnd" /\ ~log[i].ok /\ rt.executors[log[i].k].kind = "state") =>
                /\ i > 1 /\ log[i - 1].op = "callbackEnd" /\ ~log[i - 1].ok

C17_Witness ==
    /\ pc = "exec"
    /\ outcome = Resolved
    /\ rt.state.strings = <<"p", "p.c">>
    /\ \E k \in 1..Len(rt.executors) :
        /\ rt.executors[k].kind = "state"
        /\ rt.executors[k].execs.keys = {"p", "p.c"}
        /\ Len(CallbacksOf(k)) = 2
    /\ \E k \in 1..Len(rt.executors) :
        /\ rt.executors[k].kind = "state"
        /\ rt.executors[k].execs.keys = {"p.c"}
        /\ Len(CallbacksOf(k)) = 1

\* what the log holds about the run of path p
LogOf(p) ==
    LET IsOfP(entry) == entry.p = p
    IN  SelectSeq(log, IsOfP)

IsTransition(entry) == entry.op = "transition"
IsOnTransition(entry) == entry.op = "onTransition"

\* the actions of a list that have an exec function
Executable(actions) ==
    LET HasExec(action) == action.exec
    IN  SelectSeq(actions, HasExec)

\* the calls of actions the log holds for segment i of path p
ActionCalls(p, i) ==
    LET IsCall(entry) == entry.op = "action" /\ entry.i = i
    IN  SelectSeq(LogOf(p), IsCall)

\* C13: Segment.run applies the segment's event to the state it is given
\* and checks the result against the segment's target before it runs an
\* action: a mismatch fails with no action executed, a match is followed by
\* the actions of the resulting state in the machine's order, one at a time.
C13_CheckBeforeActions ==
    (pc = "run" /\ rt.mode # "PathRunner.run") =>
        \A p \in 1..Len(tasks) :
            LET L == LogOf(p)
                T == SelectSeq(L, IsTransition)
            IN  /\ \A k \in 1..Len(T) :
                    /\ T[k].from = (IF k = 1 THEN machine.initial ELSE T[k - 1].to)
                    /\ T[k].event = SegEvent(rt.paths[p][T[k].i])
                    /\ T[k].to = Transition(machine, T[k].from, T[k].event)
                    /\ LET due == Executable(StateActions(machine, T[k].from, T[k].event))
                           calls == ActionCalls(p, T[k].i)
                       IN  /\ Len(calls) <= Len(due)
                           /\ \A c \in 1..Len(calls) : calls[c].name = due[c].name
                /\ \A j \in 1..Len(L) :
                    (L[j].op = "action" /\ j < Len(L)) =>
                        L[j + 1].op = "actionEnd" /\ L[j + 1].name = L[j].name
                /\ \A j \in 1..Len(L) :
                    L[j].op = "mismatch" => ActionCalls(p, L[j].i) = <<>>

\* C14: Path.run and PathRunner.run call onTransition first with the
\* machine's initial state and then once after each later segment, in path
\* order; a segment is applied to the state the segment before it produced;
\* the actions of a step have completed when onTransition is called for it,
\* and that call has completed when the next segment is applied.
C14_RunInPathOrder ==
    (pc = "run" /\ rt.onTransition # <<>>) =>
        \A p \in 1..Len(tasks) :
            LET L == LogOf(p)
                T == SelectSeq(L, IsTransition)
                calls == SelectSeq(L, IsOnTransition)
            IN  /\ L # <<>>
                /\ L[1].op = "onTransition" /\ L[1].state = machine.initial
                /\ \A k \in 1..Len(calls) :
                    /\ calls[k].i = k
                    /\ k > 1 => Len(T) >= k - 1 /\ calls[k].state = T[k - 1].to
                /\ tasks[p].at = "resolved" => Len(calls) = Len(rt.paths[p])
                /\ \A k \in 1..Len(T) :
                    /\ T[k].i = k + 1
                    /\ T[k].event = SegEvent(rt.paths[p][k + 1])
                    /\ T[k].from = (IF k = 1 THEN machine.initial ELSE T[k - 1].to)
                /\ \A j \in 1..Len(L) :
                    L[j].op = "transition" =>
                        /\ j > 1
                        /\ L[j - 1].op = "onTransitionEnd" /\ L[j - 1].ok
                        /\ L[j - 1].i = L[j].i - 1
                /\ \A j \in 1..Len(L) :
                    (L[j].op = "onTransition" /\ L[j].i > 1) =>
                        /\ Len(ActionCalls(p, L[j].i))
                             = Len(Executable(StateActions(machine, T[L[j].i - 1].from,
                                                           T[L[j].i - 1].event)))
                        /\ \A h \in 1..Len(L) :
                            (L[h].op = "action" /\ L[h].i = L[j].i) =>
                                /\ h + 1 < j
                                /\ L[h + 1].op = "actionEnd" /\ L[h + 1].ok

C14_Witness ==
    /\ pc = "run" /\ rt.mode = "Path.run"
    /\ outcome = Resolved
    /\ Len(rt.paths[1]) = 3
    /\ rt.onTransition # <<>>
    /\ Len(ActionCalls(1, 2)) = 2
    /\ Len(ActionCalls(1, 3)) = 2
    /\ Len(SelectSeq(log, IsOnTransition)) = 3

\* C18: an error raised while a path runs (a replay mismatch, a failing
\* action, a failing onTransition) rejects the promise of Path.run, and of
\* Path.runPaths when the path is in its list, with that error.
C18_ErrorsSurfaced ==
    pc = "run" =>
        ((\E t \in 1..Len(tasks) : tasks[t].at = "rejected") =>
            /\ outcome.status = "rejected"
            /\ \E t \in 1..Len(tasks) :
                tasks[t].at = "rejected" /\ outcome.error = tasks[t].error)

\* C19: when machine.transition or a filter of the user throws during
\* generation, makePaths rejects with that error and returns no list, and
\* nothing is explored after the call that threw; a makePaths that returns
\* has met no throwing call.
C19_GenerationFailure ==
    pc \in {"idle", "running", "done", "failed"} =>
        /\ pc = "done" =>
            /\ \A i \in 1..Len(explored) :
                LET q == explored[i].path
                IN  /\ ~PathThrows(q)
                    /\ Len(q) >= 2 => ~SegmentThrows(q[Len(q) - 1].state, q[Len(q)])
            /\ \A r \in rejected :
                LET q == PathAt(r)
                IN  ~SegmentThrows(q[Len(q) - 1].state, q[Len(q)])
        /\ pc = "failed" =>
            /\ outcome.status = "rejected"
            /\ outcome.error[1] = rt.fault /\ rt.fault.kind # "none"
            /\ result = <<>>
            /\ \A i \in 1..Len(explored) :
                explored[i].addr = outcome.error[2] \/ LexBefore(explored[i].addr, outcome.error[2])
            /\ \A r \in rejected : LexBefore(r, outcome.error[2])
        /\ pc # "failed" => outcome.status # "rejected"

C19_Witness ==
    /\ pc = "failed"
    /\ rt.fault.kind = "filterSegment"
    /\ Len(paths) >= 1
    /\ Len(explored) >= 3
    /\ rejected # {}

\* C20: generateEvents(type) yields the one event { type }, without a
\* payload, when no source is registered for the type, and the registered
\* events in their registered order when one is: none for an empty source.
C20_GenerateEvents ==
    pc = "generated" =>
        IF rt.source[rt.type].registered
        THEN /\ Len(result) = Len(rt.source[rt.type].events)
             /\ \A k \in 1..Len(result) : result[k] = rt.source[rt.type].events[k]
        ELSE /\ Len(result) = 1
             /\ result[1].type = rt.type /\ result[1].payload = "none"

C20_Witness ==
    /\ pc = "generated"
    /\ rt.source[rt.type].registered
    /\ Len(result) = 2 /\ result[1] # result[2]
    /\ \E t \in Types : rt.source[t] = Registered(<<>>)

\* the number of events generateEvents yields for the first n types of a list
RECURSIVE EventsBefore(_, _, _)
EventsBefore(src, types, n) ==
    IF n = 0 THEN 0
    ELSE EventsBefore(src, types, n - 1) + Len(GenerateEvents(src, types[n]))

\* C21: generateNextEvents(state) yields the events of generateEvents(t) for
\* every t of state.nextEvents, one type after the other in the order
\* nextEvents lists them, each type's events in the order generateEvents
\* yields them, and nothing else.
C21_GenerateNextEvents ==
    pc = "nextGenerated" =>
        /\ Len(result) = EventsBefore(rt.source, rt.nextEvents, Len(rt.nextEvents))
        /\ \A i \in 1..Len(rt.nextEvents) :
            LET evs == GenerateEvents(rt.source, rt.nextEvents[i])
                before == EventsBefore(rt.source, rt.nextEvents, i - 1)
            IN  \A k \in 1..Len(evs) : result[before + k] = evs[k]

C21_Witness ==
    /\ pc = "nextGenerated"
    /\ Len(rt.nextEvents) = 2
    /\ rt.nextEvents[1] # rt.nextEvents[2]
    /\ ~rt.source[rt.nextEvents[1]].registered
    /\ Len(rt.source[rt.nextEvents[2]].events) = 2
    /\ Len(result) = 3
    /\ result[2] # result[3]

\* C22: every generateEvents generator of the type that has run to its end
\* has yielded the whole registered sequence, however many generators of
\* the type were made before it and however far those were consumed; and
\* generators made from the array, from the function returning it and from
\* the generator function yield the same events in the same order.
C22_Restartable ==
    \A g \in EventGenerators :
        /\ tasks[g].status = "done" => tasks[g].out = rt.events
        /\ \A h \in EventGenerators :
            \A k \in 1..Len(tasks[g].out) :
                k <= Len(tasks[h].out) => tasks[g].out[k] = tasks[h].out[k]

C22_Witness ==
    /\ Len(rt.events) = 2 /\ rt.events[1] # rt.events[2]
    /\ \E g, h \in EventGenerators :
        /\ g < h
        /\ tasks[g].rep = "array" /\ tasks[h].rep = "generator"
        /\ tasks[g].status = "suspended" /\ Len(tasks[g].out) = 1
        /\ tasks[h].status = "done" /\ Len(tasks[h].out) = 2

\* C23: generateNextSegments yields nothing on a segment whose state is
\* done or has no enabled event; on any other segment it yields one segment
\* per event of generateNextEvents(state), in that order, each made of that
\* event and of transition(state, event); and when the one enabled type has
\* two registered payload variants it yields two segments with different
\* event descriptions.
C23_GenerateNextSegments ==
    pc = "nextSegments" =>
        LET from == LastSegment(rt.path).state
            evs == GenerateNextEvents(options.eventSource, machine, from)
        IN  IF FinalState(from)
            THEN result = <<>>
            ELSE /\ Len(result) = Len(evs)
                 /\ \A i \in 1..Len(evs) :
                        /\ SegEvent(result[i]) = evs[i]
                        /\ result[i].state = Transition(machine, from, evs[i])
                 /\ \A t \in Types :
                        ( /\ machine.next[from] = <<t>>
                          /\ options.eventSource[t].registered
                          /\ Len(options.eventSource[t].events) = 2
                          /\ options.eventSource[t].events[1] # options.eventSource[t].events[2] )
                        => /\ Len(result) = 2
                           /\ EventDescription(result[1]) # EventDescription(result[2])

C23_Witness ==
    /\ pc = "nextSegments"
    /\ Len(rt.path) = 2
    /\ ~FinalState(LastSegment(rt.path).state)
    /\ machine.next[LastSegment(rt.path).state] = <<"A">>
    /\ Len(options.eventSource["A"].events) = 2
    /\ Len(result) = 2
    /\ result[1].state # result[2].state

\* C25: segment.isFinal() is true exactly when the segment's state is done
\* or reports no enabled event, and path.isFinal() is true exactly when
\* isFinal() of the path's last segment is.
C25_IsFinal ==
    pc = "isFinal" =>
        LET state == rt.path[Len(rt.path)].state
        IN  /\ result[1] <=> (machine.done[state] \/ Len(machine.next[state]) = 0)
            /\ result[2] <=> result[1]

C25_Witness ==
    /\ pc = "isFinal"
    /\ Len(rt.path) = 2
    /\ ~machine.done[rt.path[2].state]
    /\ machine.next[rt.path[2].state] = <<>>
    /\ machine.next[rt.path[1].state] # <<>>
    /\ result = <<TRUE, TRUE>>

\* the fields of a payload, whatever the order they were written in
Fields(payload) ==
    CASE payload = "p1" -> {"1"}
      [] payload = "p2" -> {"2"}
      [] payload = "p12" -> {"1", "2"}
      [] payload = "p21" -> {"1", "2"}
      [] OTHER -> {}

\* C24: two segments are similar exactly when they have the same event type
\* and the same target state value, whatever the payloads; they match
\* exactly when event type, payload and target state value are all equal;
\* both comparisons give the same answer in either direction, hold of a
\* segment with itself, and matching segments are similar.
C24_SegmentComparison ==
    pc = "compared" =>
        LET a == rt.segment
            b == rt.other
        IN  /\ result[1].isSimilar <=> (a.type = b.type /\ a.state = b.state)
            /\ result[1].matches <=>
                    (a.type = b.type /\ Fields(a.payload) = Fields(b.payload) /\ a.state = b.state)
            /\ result[1].isSimilar = result[2].isSimilar
            /\ result[1].matches = result[2].matches
            /\ result[3].isSimilar /\ result[3].matches
            /\ result[1].matches => result[1].isSimilar

\* start --NEXT--> middle --NEXT--> end (final), with a for start, b for
\* middle, ab for end and A for NEXT
LinearMachine ==
    MakeMachine([next |-> <<"A">>, tA |-> "b"], [next |-> <<"A">>, tA |-> "ab"], "final", FALSE)

\* makePaths(machine): no event source, no filter, no maxLength, no deduplicate
DefaultOptions ==
    WithDeduplicate([eventSource |-> [t \in Types |-> Unregistered],
                     maxLength |-> <<>>,
                     filterSegment |-> "default",
                     filterPath |-> "default"], FALSE)

\* C26: for the linear machine and default options makePaths returns one
\* path; it has the three segments xstate.init -> start, NEXT -> middle and
\* NEXT -> end, and its last segment is final.
C26_LinearMachine ==
    (pc = "done" /\ machine = LinearMachine /\ options = DefaultOptions) =>
        /\ Len(result) = 1
        /\ result[1] = << Segment(Event(InitType, "none"), "a"),
                          Segment(Event("A", "none"), "b"),
                          Segment(Event("A", "none"), "ab") >>
        /\ SegIsFinal(machine, result[1][3])

C26_Witness ==
    /\ pc = "done"
    /\ machine = LinearMachine
    /\ options = DefaultOptions
    /\ Len(result) = 1
    /\ Len(result[1]) = 3
    /\ Len(explored) = 3

\* the number of segments of a path produced by an event of a type
CountType(path, type) == Cardinality({i \in 1..Len(path) : path[i].type = type})

\* a machine whose initial state has the one transition on --TOGGLE--> on
\* (a for on, A for TOGGLE), called with the default segment filter, a path
\* filter that accepts every path, no maxLength, and an event source that
\* has an event for TOGGLE
SelfLoopCall ==
    /\ machine.next["a"] = <<"A">>
    /\ machine.target["a"]["A"] = "a"
    /\ options.filterSegment = "default"
    /\ options.filterPath = "acceptAll"
    /\ options.maxLength = <<>>
    /\ GenerateEvents(options.eventSource, "A") # <<>>

\* C27: on the self-loop machine no generated path has three or more TOGGLE
\* segments, and when generation is over a path with exactly two has been
\* generated.
C27_SelfLoopCap ==
    SelfLoopCall =>
        /\ \A i \in 1..Len(explored) :
                explored[i].yielded => CountType(explored[i].path, "A") <= 2
        /\ pc = "done" =>
                \E i \in 1..Len(explored) :
                    /\ explored[i].yielded
                    /\ CountType(explored[i].path, "A") = 2
                    /\ Len(explored[i].path) = 3

C27_Witness ==
    /\ SelfLoopCall
    /\ pc = "done"
    /\ options.eventSource["A"] = Unregistered
    /\ Len(explored) = 3
    /\ rejected # {}
    /\ \E k \in 1..Len(result) : CountType(result[k], "A") = 2

\* C28: while makePaths consumes generatePaths, the array it has collected
\* is the sequence of the paths yielded so far, each new path added at its
\* end, so the first k paths taken are the first k of the whole list; when
\* the generator is exhausted makePaths returns that list as it is without
\* the deduplicate option, and Path.deduplicate of it with the option.
C28_EagerIncremental ==
    [][ /\ pc' = "running" =>
            /\ paths' = YieldedPaths(explored')
            /\ pc = "running" => IsPrefix(paths, paths')
        /\ (pc = "running" /\ pc' = "done") =>
            IF options'.deduplicate
            THEN result' = Deduplicate(YieldedPaths(explored))
            ELSE /\ result' = YieldedPaths(explored)
                 /\ IsPrefix(paths, result') ]_vars

C28_Witness ==
    /\ pc = "done"
    /\ ~options.deduplicate
    /\ Len(result) >= 3
    /\ result = YieldedPaths(explored)
    /\ Len(Deduplicate(result)) < Len(result)
    /\ rejected # {}

\* C29: a path whose next paths are being generated keeps its segment list
\* (the same segments in the same order) through every step of the
\* generation, the paths constructed earlier stay as they were, and every
\* path constructed in generateNextPaths is made of the segments of the
\* path it extends, in order, followed by one new segment.
C29_ImmutableExtension ==
    [][ /\ \A k \in 1..Len(stack) :
            k <= Len(stack') => stack'[k].path = stack[k].path
        /\ Len(explored') >= Len(explored) =>
            SubSeq(explored', 1, Len(explored)) = explored
        /\ (stack # <<>> /\ Len(explored') = Len(explored) + 1) =>
            LET parent == stack[Len(stack)].path
                child == explored'[Len(explored')].path
            IN  /\ Len(child) = Len(parent) + 1
                /\ SubSeq(child, 1, Len(parent)) = parent
                /\ child[Len(child)] \in Range(Candidates) ]_vars

C29_Witness ==
    /\ pc = "running"
    /\ Len(stack) = 2
    /\ stack[2].idx = 3
    /\ Len(stack[2].path) = 2
    /\ \E i, j \in 1..Len(explored) :
        /\ i < j
        /\ explored[i].path = stack[2].path
        /\ Len(explored[j].path) = 3
        /\ SubSeq(explored[j].path, 1, 2) = stack[2].path

\* the reads of the property made on an instance, in order
RECURSIVE ReadsOf(_, _)
ReadsOf(entries, i) ==
    IF entries = <<>> THEN <<>>
    ELSE IF Head(entries).instance = i
         THEN <<Head(entries)>> \o ReadsOf(Tail(entries), i)
         ELSE ReadsOf(Tail(entries), i)

\* C30: on every instance the original getter runs on the first read of the
\* property and on no later read, whatever value it computed, and every
\* read of the instance returns the value computed on that first read (so
\* never a value computed for another instance).
C30_CacheOnce ==
    \A i \in Instances :
        LET reads == ReadsOf(log, i)
        IN  \A k \in 1..Len(reads) :
                /\ reads[k].computed <=> k = 1
                /\ reads[k].value = reads[1].value

\* other's segments occur in path in order and contiguously, each segment
\* matching the corresponding one
HasSegmentRun(path, other) ==
    \E k \in 0..(Len(path) - Len(other)) :
        \A i \in 1..Len(other) : SegMatches(path[k + i], other[i])

\* C31: path.includes(other) is true exactly when the segments of other
\* occur in path in order and contiguously, each matching the corresponding
\* segment, and false when there is no such run of segments
C31_IncludesSegmentRun ==
    pc = "included" => (result[1] <=> HasSegmentRun(rt.path, rt.other))

\* C32: an EventExecutor and a StateExecutor can be constructed with no
\* registry argument: the construction does not fail, and the executor built
\* behaves as an empty registry, its exec calling no callback for any state
C32_NoRegistryArgument ==
    (pc \in {"exec", "constructFailed"} /\ rt.args = <<>>) =>
        /\ pc = "exec"
        /\ rt.executors[1].execs = [keys |-> {}, throws |-> {}]
        /\ \A i \in 1..Len(log) : log[i].op # "callback"

\* the fields of an object as a set of key and value pairs
FieldSet(item) == { <<item[i].key, item[i].value>> : i \in 1..Len(item) }

\* the shallow merge of l and r, the fields of r taking precedence
MergedFields(l, r) ==
    FieldSet(r) \cup { f \in FieldSet(l) : f[1] \notin KeysOf(r) }

\* C33: crossMerge(left, right) returns |left| x |right| items, one for
\* every pair in left-major order, each the shallow merge of l and r with
\* the fields of r taking precedence, and crossMergeGenerator yields the
\* same items in the same order
C33_CrossMerge ==
    pc = "merged" =>
        LET left == rt.itemsLeft
            right == rt.itemsRight
        IN  /\ Len(result[1]) = Len(left) * Len(right)
            /\ \A i \in 1..Len(left) : \A j \in 1..Len(right) :
                 FieldSet(result[1][(i - 1) * Len(right) + j]) = MergedFields(left[i], right[j])
            /\ result[2] = result[1]

\* T: the event types some state of the machine enables
EventTypes(m) == UNION { Range(m.next[s]) : s \in States }

\* V: the state values a transition of the machine on an event of the
\* source can lead to
TargetValues(m, src) ==
    UNION { { Transition(m, s, e) : e \in Range(GenerateNextEvents(src, m, s)) } :
            s \in States }

\* the longest path the default segment filter lets through: 1 + 2 * T * V
LengthBound(m, src) ==
    1 + 2 * Cardinality(EventTypes(m)) * Cardinality(TargetValues(m, src))

\* C34: with the default segment filter every explored path has at most
\* 1 + 2 * T * V segments, whatever maxLength is, T being the number of
\* event types and V the number of target state values of the machine
C34_LengthBound ==
    options.filterSegment = "default" =>
        { Len(explored[i].path) : i \in 1..Len(explored) }
            \subseteq 1..LengthBound(machine, options.eventSource)

C34_Witness ==
    /\ pc = "done"
    /\ options.filterSegment = "default"
    /\ MaxLength(options) > LengthBound(machine, options.eventSource)
    /\ rejected # {}
    /\ \E i \in 1..Len(explored) :
            Len(explored[i].path) = LengthBound(machine, options.eventSource)

\* the events the source produces for the types enabled in state s
EventsEnabledIn(s) ==
    UNION { Range(GenerateEvents(options.eventSource, t)) : t \in Range(machine.next[s]) }

\* every (event type, target value) pair occurs at most twice in the walk
PairsAtMostTwice(w) ==
    \A k \in 1..Len(w) : Cardinality(Occurrences(w, w[k].type, w[k].state)) <= 2

\* the walks one step longer than those of ws: the step uses an event the
\* source produces for a type enabled in the preceding state, which is not
\* final; a walk that holds a pair three times is left out with all its
\* extensions, none of which holds the pair at most twice
Extensions(ws) ==
    { x \in UNION { { Append(w, Segment(e, Transition(machine, w[Len(w)].state, e))) :
                        e \in EventsEnabledIn(w[Len(w)].state) } :
                    w \in { v \in ws : ~FinalState(v[Len(v)].state) } } :
        PairsAtMostTwice(x) }

\* the walks of ws and their extensions by up to n - 1 steps
RECURSIVE WalksFrom(_, _)
WalksFrom(ws, n) ==
    IF n <= 1 \/ ws = {} THEN ws ELSE ws \cup WalksFrom(Extensions(ws), n - 1)

\* the walks from the initial state that end in a final state, are no
\* longer than maxLength and hold every pair at most twice
FinalWalks ==
    { w \in WalksFrom({<<InitialSegment(machine)>>}, MaxLength(options)) :
        FinalState(w[Len(w)].state) }

\* C35: with the default filters and maxLength >= 2 the generated paths are
\* exactly the walks from the initial state that use, at every step, an
\* event the source produces for a type enabled in the preceding state,
\* pass through no final state before the last, end in a final state, have
\* at most maxLength segments and hold every (event type, target value)
\* pair at most twice; each such walk is generated exactly once
C35_ExactlyTheWalks ==
    (/\ pc = "done"
     /\ options.filterSegment = "default" /\ options.filterPath = "default"
     /\ MaxLength(options) >= 2) =>
        LET generated == YieldedPaths(explored)
        IN  /\ Range(generated) = FinalWalks
            /\ \A i, j \in 1..Len(generated) : generated[i] = generated[j] => i = j

C35_Witness ==
    /\ pc = "done"
    /\ options.filterSegment = "default" /\ options.filterPath = "default"
    /\ MaxLength(options) >= 2
    /\ Len(YieldedPaths(explored)) >= 3
    /\ rejected # {}
    /\ \E i \in 1..Len(explored) :
            ~explored[i].yielded /\ Len(explored[i].path) = MaxLength(options)

\* the run of path p is over: its promise is resolved or rejected
RunCompleted(p) == tasks[p].at \in {"resolved", "rejected"}

\* C36: Path.runPaths runs the paths one at a time in iteration order: no
\* transition or callback of path k + 1 happens before the run of path k has
\* completed, and runPaths completes only after the run of every path has
\* completed
C36_RunPathsSequential ==
    (pc = "run" /\ rt.mode = "Path.runPaths" /\ tasks # <<>>) =>
        /\ \A k \in 1..(Len(tasks) - 1) : LogOf(k + 1) # <<>> => RunCompleted(k)
        /\ outcome.status \in {"resolved", "rejected"} =>
                \A p \in 1..Len(tasks) : RunCompleted(p)

\* C37: every input path of Path.deduplicate is in the output or has a
\* description contained in the description of an output path, and every
\* output path is an input path and appears in the output once
C37_DedupCovers ==
    pc \in {"deduped", "dedupedTwice"} =>
        /\ \A i \in 1..Len(dedupArg) :
            \/ dedupArg[i] \in Range(dedupOut)
            \/ \E j \in 1..Len(dedupOut) :
                 StrIncludes(Description(dedupOut[j]), Description(dedupArg[i]))
        /\ Range(dedupOut) \subseteq Range(dedupArg)
        /\ \A i, j \in 1..Len(dedupOut) : dedupOut[i] = dedupOut[j] => i = j

C37_Witness ==
    /\ pc = "deduped"
    /\ Len(dedupArg) = 3
    /\ Len(dedupOut) = 1
    /\ dedupArg[1] = dedupArg[3]
    /\ dedupArg[2] \notin Range(dedupOut)

\* a path generation can produce from machine m: the initial segment, then
\* segments generateNextSegments yields from the state before them
IsGeneratedPath(m, path) ==
    /\ path[1] = InitialSegment(m)
    /\ \A i \in 2..Len(path) :
        /\ ~m.done[path[i - 1].state]
        /\ path[i].type \in Range(m.next[path[i - 1].state])
        /\ path[i].state = Transition(m, path[i - 1].state, SegEvent(path[i]))

\* C38: the run of a path produced by generation, started from the initial
\* state of the machine, raises no replay-mismatch error, and when it
\* completes the state reached after the last segment has the value
\* path.target
C38_ReplayOfGeneratedPath ==
    pc = "run" =>
        \A t \in 1..Len(tasks) :
            IsGeneratedPath(machine, PathOf(t)) =>
                /\ \A k \in 1..Len(log) : ~(log[k].op = "mismatch" /\ log[k].p = tasks[t].p)
                /\ tasks[t].at = "resolved" => tasks[t].cur = LastSegment(PathOf(t)).state

C38_Witness ==
    /\ pc = "run"
    /\ rt.mode = "Path.run"
    /\ machine.guarded
    /\ Len(rt.paths[1]) = 3
    /\ IsGeneratedPath(machine, rt.paths[1])
    /\ rt.paths[1][2].payload = "p2"
    /\ tasks # <<>> /\ tasks[1].at = "resolved"
    /\ tasks[1].cur = "b"

\* C39: under the default path filter no generated path is a proper prefix
\* of another generated path, a path that ends in a final state never being
\* extended
C39_NoProperPrefix ==
    options.filterPath = "default" =>
        \A i, j \in 1..Len(explored) :
            (explored[i].yielded /\ explored[j].yielded) =>
                ~(/\ Len(explored[i].path) < Len(explored[j].path)
                  /\ IsPrefix(explored[i].path, explored[j].path))

C39_Witness ==
    /\ pc = "done"
    /\ options.filterPath = "default"
    /\ \E i, j \in 1..Len(explored) :
        /\ explored[i].yielded /\ explored[j].yielded
        /\ Len(explored[i].path) < Len(explored[j].path)
        /\ \E k \in 1..Len(explored) :
            /\ ~explored[k].yielded
            /\ Len(explored[k].path) = Len(explored[i].path)
            /\ IsPrefix(explored[k].path, explored[j].path)

\* a step taken while the generators are at work changes nothing of a run
\* and nothing of the machine
PureStep ==
    pc \in {"idle", "running"} =>
        /\ log' = log
        /\ tasks' = tasks
        /\ outcome' = outcome
        /\ machine' = machine
        /\ InitialSegment(machine') = InitialSegment(machine)

\* C40: a step of generatePaths, generateNextPaths or generateNextSegments
\* executes no action of a state, calls no onTransition or executor
\* callback and starts no run, and leaves the machine and its initial state
\* as they were
C40_GenerationIsPure == [][PureStep]_vars

C40_Witness ==
    /\ pc = "done"
    /\ Len(explored) >= 4
    /\ Len(result) >= 2
    /\ rejected # {}
    /\ log = <<>> /\ tasks = <<>>
    /\ explored[1].path = <<InitialSegment(machine)>>

====
